---- MODULE Spec2Model ----
(***************************************************************************)
(* Read-through dataset cache of the Lambda gateway (src/lambda/api-cache.js)*)
(* as a state machine.  Each process is one invocation of getCachedApiData  *)
(* on one warm instance; every await of the source is a step boundary, so   *)
(* concurrent invocations interleave exactly at the suspension points.      *)
(* fs.writeFile is not atomic: it opens the file with truncation and then   *)
(* writes the content, the payload in two chunks.                           *)
(***************************************************************************)
EXTENDS Integers, Sequences, FiniteSets, TLC

(* ---------------------------------------------------------------- bounds *)
\* events of the environment (clock advances, uploads of a new data.json and
\* reclaims of the instance) in one behaviour
MaxEvents == 2

\* versions of data.json that can then exist
MaxVersion == MaxEvents + 1

(* ------------------------------------------------------------- constants *)
cacheExpiration == 5 * 60 * 1000

CACHE_BYPASS_KEYWORDS == {"bao.ngo", "opensocial", "ngoduybao", "harrybaocorn"}

\* two invocations can be in flight on the warm instance at the same time
Procs == {"p1", "p2"}
Ids == {"ds1"}

(* Steps by which the clock advances: with these two, a timestamp taken at *)
(* 0 is seen at ages cacheExpiration - 1 (fresh) and cacheExpiration (stale).*)
TickSteps == {1, cacheExpiration - 1}

(* pathSegments arguments the callers pass: the handler of the deployed     *)
(* variant passes the split request path, the handler of src/lambda/index.js*)
(* passes nothing (undefined).                                              *)
Undefined == [defined |-> FALSE, segs |-> <<>>]
PlainPath == [defined |-> TRUE,
              segs |-> <<"v1", "api", "use", "acme", "users", "search">>]
BypassPath == [defined |-> TRUE,
               segs |-> <<"v1", "api", "use", "bao.ngo", "users", "search">>]
PathInputs == {PlainPath, BypassPath, Undefined}

(* ------------------------------------------------------------ file model *)
ErrorMessage == "Failed to fetch API data"

\* the dataset stored in the object store for apiId at version v,
\* a sequence of two records (one per written chunk)
Dataset(apiId, v) == << [ds |-> apiId, ver |-> v, row |-> 1],
                        [ds |-> apiId, ver |-> v, row |-> 2] >>

CompleteDatasets(apiId) == { Dataset(apiId, v) : v \in 1..MaxVersion }

\* bytes never written inside a file that was extended past its end
Hole == [ds |-> "", ver |-> 0, row |-> 0]

\* a file of the scratch directory: missing, or its text
NoFile == [exists |-> FALSE, text |-> <<>>]
Truncated == [exists |-> TRUE, text |-> <<>>]

\* a write of chunk c at file offset k (own file position of the writer)
WriteAt(text, k, c) ==
    [i \in 1..(IF Len(text) > k THEN Len(text) ELSE k) |->
        IF i = k THEN c
        ELSE IF i <= Len(text) THEN text[i] ELSE Hole]

\* JSON.parse(await fs.readFile(dataPath)): succeeds iff the text is complete
ParsesAsData(file) ==
    /\ file.exists
    /\ Len(file.text) = 2
    /\ \A i \in 1..2 : file.text[i] # Hole

\* JSON.parse(await fs.readFile(metadataPath)): a missing file and an
\* empty (truncated) file both throw
ParsesAsMetadata(file) == file.exists /\ Len(file.text) = 1

Metadata(t) == [timestamp |-> t]

\* now, events           Date.now() and the number of clock advances,
\*                       uploads and reclaims so far
\* store                 version of data.json in the bucket, per API
\* metadataCache         the module-level Map (<<>>: no entry)
\* metaFile, dataFile    /tmp/api-cache/<apiId>-metadata.json and -data.json
\* pc, call              position and locals of each invocation
\* filterRun             the locals of one run of the filter of processQuery
\* handlerRun            the locals of the request the handler is working on
\* downloads             history, kept in the behaviours that record it:
\*                       when each version of a dataset was last
\*                       downloaded by a refresh
\* overlapped, published history: whether two cache-using invocations for
\*                       the API were ever in flight together on this
\*                       instance, and which payload was fetched by each
\*                       refresh that wrote a durable timestamp
VARIABLES now, events, store, metadataCache, metaFile, dataFile, pc, call,
          overlapped, published, downloads, filterRun, handlerRun

vars == <<now, events, store, metadataCache, metaFile, dataFile, pc, call,
          overlapped, published, downloads, filterRun, handlerRun>>

cacheState == <<metadataCache, metaFile, dataFile>>

\* locals of one invocation (raw: the metadata file as read, until parsed)
\* and the record of what the invocation did
IdleCall == [apiId |-> "", pathSegments |-> Undefined, metadata |-> <<>>,
             raw |-> NoFile, jsonData |-> <<>>, ts |-> -1,
             result |-> [ok |-> FALSE, value |-> <<>>, message |-> ""],
             outcome |-> "none", fetches |-> 0,
             touched |-> {}, steps |-> <<>>, observed |-> NoFile,
             failedAt |-> "none", checkedAt |-> -1]

\* the filter of processQuery is not running
IdleRun == [stage |-> "idle", variant |-> "", queryParams |-> <<>>,
            jsonData |-> <<>>, parsedQuery |-> <<>>, result |-> <<>>]

\* no download recorded; recording says whether the behaviour keeps the
\* times of the downloads and of the freshness tests
NoDownloads(recording) ==
    [recording |-> recording,
     at |-> [i \in Ids |-> [v \in 1..MaxVersion |-> -1]]]

\* the body of a response: null, {error: message}, or the records of
\* JSON.stringify(queryResult)
NullBody == [kind |-> "null", error |-> "", records |-> <<>>]
ErrorBody(message) == [kind |-> "error", error |-> message, records |-> <<>>]
RecordsBody(queryResult) == [kind |-> "records", error |-> "", records |-> queryResult]

Response(statusCode, body) == [statusCode |-> statusCode, body |-> body]
NoResponse == Response(0, NullBody)

\* the handler is not working on a request
IdleRequest ==
    [stage |-> "idle", variant |-> "", method |-> "", path |-> Undefined,
     apiKey |-> FALSE, queryParams |-> <<>>, api |-> "", apiId |-> "",
     queryResult |-> [ok |-> FALSE, value |-> <<>>],
     response |-> NoResponse, log |-> "none", thrown |-> "none",
     fetched |-> FALSE]

Init ==
    /\ now = 0
    /\ events = 0
    /\ store = [i \in Ids |-> 1]
    /\ metadataCache = [i \in Ids |-> <<>>]
    /\ metaFile = [i \in Ids |-> NoFile]
    /\ dataFile = [i \in Ids |-> NoFile]
    /\ pc = [p \in Procs |-> "idle"]
    /\ call = [p \in Procs |-> IdleCall]
    /\ overlapped = [i \in Ids |-> FALSE]
    /\ published = [i \in Ids |-> {}]
    /\ downloads = NoDownloads(FALSE)
    /\ filterRun = IdleRun
    /\ handlerRun = IdleRequest

\* segments that hold a keyword inside a longer text
Containing == {"bao.ngo.vn", "myopensocial"}

\* mutation: a keyword anywhere inside a segment is enough
shouldBypassCacheSubstring(pathSegments) ==
    \E i \in 1..Len(pathSegments.segs) :
        pathSegments.segs[i] \in CACHE_BYPASS_KEYWORDS \cup Containing

(* ------------------------------------------------------------ api-cache *)
\* mutation: only the first path segment is compared with the keywords
shouldBypassCacheFirstSegment(pathSegments) ==
    /\ Len(pathSegments.segs) > 0
    /\ pathSegments.segs[1] \in CACHE_BYPASS_KEYWORDS

shouldBypassCache(pathSegments) ==
    \E keyword \in CACHE_BYPASS_KEYWORDS :
        \E i \in 1..Len(pathSegments.segs) : pathSegments.segs[i] = keyword

\* mutation: > instead of < in line 49
IsFreshReversed(metadata, t) ==
    /\ metadata # <<>>
    /\ t - metadata[1].timestamp > cacheExpiration

\* mutation: <= instead of < in line 49
IsFreshInclusive(metadata, t) ==
    /\ metadata # <<>>
    /\ t - metadata[1].timestamp <= cacheExpiration

\* the freshness test of getCachedApiData, line 49
IsFresh(metadata, t) ==
    /\ metadata # <<>>
    /\ t - metadata[1].timestamp < cacheExpiration

\* mutation: the catch blocks rethrow the error they caught
ThrownCause(c, cause) ==
    [c EXCEPT !.result = [ok |-> FALSE, value |-> <<>>, message |-> cause],
              !.failedAt = cause]

\* both catch blocks: log the cause, throw one fixed Error
Thrown(c, cause) ==
    [c EXCEPT !.result = [ok |-> FALSE, value |-> <<>>, message |-> ErrorMessage],
              !.failedAt = cause]

Returned(c, data) ==
    [c EXCEPT !.result = [ok |-> TRUE, value |-> data, message |-> ""]]

\* line 49 to 54: hit goes on to read the payload file, miss to the refresh
Checked(c, metadata) ==
    [c EXCEPT !.raw = NoFile,
              !.checkedAt = IF downloads.recording THEN now ELSE -1,
              !.metadata = IF IsFresh(metadata, now) THEN metadata ELSE <<>>,
              !.outcome = IF IsFresh(metadata, now) THEN "hit" ELSE "miss"]

AfterCheck(metadata) == IF IsFresh(metadata, now) THEN "readData" ELSE "mkdir"

InProgress(q, apiId) ==
    /\ pc[q] \notin {"idle", "done"}
    /\ call[q].apiId = apiId
    /\ call[q].outcome # "bypass"


(* ------------------------------------------------------- getCachedApiData *)
\* Entry of getCachedApiData up to its first await on I/O: the bypass test
\* (a TypeError on undefined pathSegments is caught by the first catch),
\* then getMetadata's look into the in-process map and, when the map has the
\* entry, the freshness test.
InvokeWith(p, apiIds, paths) ==
    /\ pc[p] = "idle"
    /\ \E apiId \in apiIds, pathSegments \in paths :
        LET c0 == [IdleCall EXCEPT !.apiId = apiId,
                                   !.pathSegments = pathSegments]
            entry == metadataCache[apiId]
        IN  IF ~pathSegments.defined
            THEN /\ call' = [call EXCEPT ![p] = Thrown(c0, "segments")]
                 /\ pc' = [pc EXCEPT ![p] = "done"]
                 /\ UNCHANGED overlapped
            ELSE IF shouldBypassCache(pathSegments)
            THEN /\ call' = [call EXCEPT ![p] = [c0 EXCEPT !.outcome = "bypass"]]
                 /\ pc' = [pc EXCEPT ![p] = "bypassFetch"]
                 /\ UNCHANGED overlapped
            ELSE /\ overlapped' = [overlapped EXCEPT ![apiId] =
                        @ \/ \E q \in Procs \ {p} : InProgress(q, apiId)]
                 /\ IF entry # <<>>
                    THEN /\ call' = [call EXCEPT ![p] =
                                [Checked(c0, entry) EXCEPT !.touched = {"mapRead"}]]
                         /\ pc' = [pc EXCEPT ![p] = AfterCheck(entry)]
                    ELSE /\ call' = [call EXCEPT ![p] =
                                [c0 EXCEPT !.touched = {"mapRead"}]]
                         /\ pc' = [pc EXCEPT ![p] = "readMeta"]
    /\ UNCHANGED <<handlerRun, downloads, filterRun, now, events, store, cacheState, published>>

Invoke(p) == InvokeWith(p, Ids, PathInputs)

\* fetchFreshData: one download of the dataset from the store; a download
\* error or an unparsable body throws
KeepData(c, jsonData) == [c EXCEPT !.jsonData = jsonData]

\* the locals of the invocation after fetchFreshData: jsonData on success,
\* the rejection when the download or the parse of its body threw
fetchFreshData(c, ok) ==
    LET d == [c EXCEPT !.fetches = @ + 1]
    IN  IF ok THEN KeepData(d, Dataset(d.apiId, store[d.apiId]))
        ELSE Thrown(d, "fetch")

\* history: the download of the invocation with locals c has ended
Downloaded(c) ==
    IF downloads.recording /\ c.jsonData # <<>>
    THEN [downloads EXCEPT !.at[c.apiId][c.jsonData[1].ver] = now]
    ELSE downloads

\* mutation: the bypass path stores what it has downloaded in the payload file
BypassFetchStoring(p) ==
    /\ pc[p] = "bypassFetch"
    /\ \E ok \in BOOLEAN :
        LET c == fetchFreshData(call[p], ok)
        IN  /\ call' = [call EXCEPT ![p] =
                        IF ok THEN Returned(c, c.jsonData) ELSE c]
            /\ dataFile' = IF ok
                           THEN [dataFile EXCEPT ![c.apiId] =
                                    [exists |-> TRUE, text |-> c.jsonData]]
                           ELSE dataFile
    /\ pc' = [pc EXCEPT ![p] = "done"]
    /\ UNCHANGED <<handlerRun, downloads, filterRun, now, events, store, metadataCache, metaFile, overlapped,
                   published>>

\* line 33: return await fetchFreshData(supabase, apiId)
BypassFetch(p) ==
    /\ pc[p] = "bypassFetch"
    /\ \E ok \in BOOLEAN :
        LET c == fetchFreshData(call[p], ok)
        IN  call' = [call EXCEPT ![p] =
                        IF ok THEN Returned(c, c.jsonData) ELSE c]
    /\ pc' = [pc EXCEPT ![p] = "done"]
    /\ UNCHANGED <<handlerRun, downloads, filterRun, now, events, store, cacheState, overlapped, published>>

\* getMetadata line 83, the read of the metadata file
ReadMeta(p) ==
    /\ pc[p] = "readMeta"
    /\ call' = [call EXCEPT ![p].raw = metaFile[call[p].apiId],
                            ![p].touched = @ \cup {"metaRead"}]
    /\ pc' = [pc EXCEPT ![p] = "gotMeta"]
    /\ UNCHANGED <<handlerRun, downloads, filterRun, now, events, store, cacheState, overlapped, published>>

\* getMetadata line 83 to 89 after the read: parse, store in the map and
\* return, or return null; then the freshness test of line 49
GotMetaWith(p, rehydrate) ==
    /\ pc[p] = "gotMeta"
    /\ LET c == call[p]
           metadata == IF ParsesAsMetadata(c.raw) THEN c.raw.text ELSE <<>>
       IN  /\ metadataCache' = IF metadata # <<>> /\ rehydrate
                               THEN [metadataCache EXCEPT ![c.apiId] = metadata]
                               ELSE metadataCache
           /\ call' = [call EXCEPT ![p] =
                    Checked([c EXCEPT !.touched =
                                IF metadata # <<>> THEN @ \cup {"mapWrite"} ELSE @],
                            metadata)]
           /\ pc' = [pc EXCEPT ![p] = AfterCheck(metadata)]
    /\ UNCHANGED <<handlerRun, downloads, filterRun, now, events, store, metaFile, dataFile, overlapped, published>>

\* mutation: the catch of getMetadata rethrows, so that a missing or
\* unparsable metadata file rejects the call
GotMetaAbsentThrows(p) ==
    /\ pc[p] = "gotMeta"
    /\ LET c == call[p]
           metadata == IF ParsesAsMetadata(c.raw) THEN c.raw.text ELSE <<>>
       IN  IF metadata = <<>>
           THEN /\ call' = [call EXCEPT ![p] = Thrown(c, "corrupt")]
                /\ pc' = [pc EXCEPT ![p] = "done"]
                /\ UNCHANGED metadataCache
           ELSE /\ metadataCache' = [metadataCache EXCEPT ![c.apiId] = metadata]
                /\ call' = [call EXCEPT ![p] =
                        Checked([c EXCEPT !.touched = @ \cup {"mapWrite"}],
                                metadata)]
                /\ pc' = [pc EXCEPT ![p] = AfterCheck(metadata)]
    /\ UNCHANGED <<handlerRun, downloads, filterRun, now, events, store, metaFile, dataFile, overlapped, published>>

\* mutation: line 84, metadataCache.set, left out
GotMetaNoRehydrate(p) == GotMetaWith(p, FALSE)

\* mutation: the catch of getMetadata stores an entry of timestamp 0 in the
\* map before it returns null
GotMetaStoresUnreadable(p) ==
    /\ pc[p] = "gotMeta"
    /\ LET c == call[p]
           metadata == IF ParsesAsMetadata(c.raw) THEN c.raw.text ELSE <<>>
       IN  /\ metadataCache' = [metadataCache EXCEPT ![c.apiId] =
                    IF metadata # <<>> THEN metadata ELSE <<Metadata(0)>>]
           /\ call' = [call EXCEPT ![p] =
                    Checked([c EXCEPT !.touched = @ \cup {"mapWrite"}], metadata)]
           /\ pc' = [pc EXCEPT ![p] = AfterCheck(metadata)]
    /\ UNCHANGED <<handlerRun, downloads, filterRun, now, events, store, metaFile, dataFile, overlapped, published>>

GotMeta(p) == GotMetaWith(p, TRUE)

\* line 51: the hit reads and parses the payload file; a throw of readFile
\* or JSON.parse goes to the catch of line 69
ReadDataWith(p, repair) ==
    /\ pc[p] = "readData"
    /\ LET c == [call[p] EXCEPT !.observed = dataFile[call[p].apiId],
                                !.touched = @ \cup {"dataRead"}]
       IN  IF ParsesAsData(c.observed)
           THEN /\ call' = [call EXCEPT ![p] = Returned(c, c.observed.text)]
                /\ pc' = [pc EXCEPT ![p] = "done"]
           ELSE IF repair
           THEN /\ call' = [call EXCEPT ![p] = c]
                /\ pc' = [pc EXCEPT ![p] = "mkdir"]
           ELSE /\ call' = [call EXCEPT ![p] = Thrown(c, "corrupt")]
                /\ pc' = [pc EXCEPT ![p] = "done"]
    /\ UNCHANGED <<handlerRun, downloads, filterRun, now, events, store, cacheState, overlapped, published>>

\* mutation: an unreadable payload under fresh metadata falls through to
\* the refresh
ReadDataRepair(p) == ReadDataWith(p, TRUE)

ReadData(p) == ReadDataWith(p, FALSE)

\* line 57: fs.mkdir(cacheDir, {recursive: true})
Mkdir(p) ==
    /\ pc[p] = "mkdir"
    /\ \E ok \in BOOLEAN :
        IF ok
        THEN /\ pc' = [pc EXCEPT ![p] = "fetch"]
             /\ UNCHANGED call
        ELSE /\ call' = [call EXCEPT ![p] = Thrown(call[p], "mkdir")]
             /\ pc' = [pc EXCEPT ![p] = "done"]
    /\ UNCHANGED <<handlerRun, downloads, filterRun, now, events, store, cacheState, overlapped, published>>

\* mutation: when the download fails, the payload file is served instead
FetchStaleOnError(p) ==
    /\ pc[p] = "fetch"
    /\ \E ok \in BOOLEAN :
        LET c == [call[p] EXCEPT !.fetches = @ + 1]
            stale == dataFile[c.apiId]
        IN  IF ok
            THEN /\ call' = [call EXCEPT ![p] =
                        KeepData(c, Dataset(c.apiId, store[c.apiId]))]
                 /\ pc' = [pc EXCEPT ![p] = "openData"]
            ELSE /\ call' = [call EXCEPT ![p] =
                        IF ParsesAsData(stale) THEN Returned(c, stale.text)
                        ELSE Thrown(c, "fetch")]
                 /\ pc' = [pc EXCEPT ![p] = "done"]
    /\ UNCHANGED <<handlerRun, filterRun, now, events, store, cacheState, overlapped, published>>
    /\ downloads' = Downloaded(call'[p])

\* mutation: a failed download is attempted a second time
FetchRetryOnce(p) ==
    /\ pc[p] = "fetch"
    /\ \E ok, again \in BOOLEAN :
        LET first == fetchFreshData(call[p], ok)
            second == fetchFreshData([first EXCEPT !.failedAt = "none",
                                         !.result = call[p].result], again)
        IN  /\ call' = [call EXCEPT ![p] = IF ok THEN first ELSE second]
            /\ pc' = [pc EXCEPT ![p] = IF ok \/ again THEN "openData" ELSE "done"]
    /\ UNCHANGED <<handlerRun, filterRun, now, events, store, cacheState, overlapped, published>>
    /\ downloads' = Downloaded(call'[p])

\* mutation: a failed download removes the entry of the API from the map
FetchFailureEvicts(p) ==
    /\ pc[p] = "fetch"
    /\ \E ok \in BOOLEAN :
        /\ call' = [call EXCEPT ![p] = fetchFreshData(call[p], ok)]
        /\ pc' = [pc EXCEPT ![p] = IF ok THEN "openData" ELSE "done"]
        /\ metadataCache' = IF ok THEN metadataCache
                            ELSE [metadataCache EXCEPT ![call[p].apiId] = <<>>]
    /\ UNCHANGED <<handlerRun, filterRun, now, events, store, metaFile, dataFile, overlapped,
                   published>>
    /\ downloads' = Downloaded(call'[p])

\* line 60: const jsonData = await fetchFreshData(supabase, apiId)
Fetch(p) ==
    /\ pc[p] = "fetch"
    /\ \E ok \in BOOLEAN :
        /\ call' = [call EXCEPT ![p] = fetchFreshData(call[p], ok)]
        /\ pc' = [pc EXCEPT ![p] = IF ok THEN "openData" ELSE "done"]
    /\ UNCHANGED <<handlerRun, filterRun, now, events, store, cacheState, overlapped, published>>
    /\ downloads' = Downloaded(call'[p])

\* mutation: a failure of the cache bookkeeping is swallowed and the data
\* at hand returned
FailsSwallowed(p, cause) ==
    /\ call' = [call EXCEPT ![p] =
            Returned([call[p] EXCEPT !.failedAt = cause], call[p].jsonData)]
    /\ pc' = [pc EXCEPT ![p] = "done"]

\* a failed step of the refresh: the catch of line 69 turns it into the
\* fixed Error
Fails(p, cause) ==
    /\ call' = [call EXCEPT ![p] = Thrown(call[p], cause)]
    /\ pc' = [pc EXCEPT ![p] = "done"]

\* line 63, fs.writeFile(dataPath, ...): open with O_TRUNC
OpenData(p) ==
    /\ pc[p] = "openData"
    /\ \E ok \in BOOLEAN :
        IF ok
        THEN /\ dataFile' = [dataFile EXCEPT ![call[p].apiId] = Truncated]
             /\ call' = [call EXCEPT ![p].touched = @ \cup {"dataWrite"}]
             /\ pc' = [pc EXCEPT ![p] = "writeData1"]
        ELSE /\ Fails(p, "dataWrite")
             /\ UNCHANGED dataFile
    /\ UNCHANGED <<handlerRun, downloads, filterRun, now, events, store, metadataCache, metaFile, overlapped,
                   published>>

\* line 63, fs.writeFile(dataPath, ...): first write(2) of the text
WriteData1(p) ==
    /\ pc[p] = "writeData1"
    /\ \E ok \in BOOLEAN :
        LET c == call[p] IN
        IF ok
        THEN /\ dataFile' = [dataFile EXCEPT ![c.apiId].text =
                                WriteAt(@, 1, c.jsonData[1])]
             /\ pc' = [pc EXCEPT ![p] = "writeData2"]
             /\ UNCHANGED call
        ELSE /\ Fails(p, "dataWrite")
             /\ UNCHANGED dataFile
    /\ UNCHANGED <<handlerRun, downloads, filterRun, now, events, store, metadataCache, metaFile, overlapped,
                   published>>

\* line 63, fs.writeFile(dataPath, ...): last write(2) of the text; then
\* line 66 calls updateMetadata, whose line 93 takes Date.now()
WriteData2(p) ==
    /\ pc[p] = "writeData2"
    /\ \E ok \in BOOLEAN :
        LET c == call[p] IN
        IF ok
        THEN /\ dataFile' = [dataFile EXCEPT ![c.apiId].text =
                                WriteAt(@, 2, c.jsonData[2])]
             /\ call' = [call EXCEPT ![p].steps = Append(@, "data"),
                                     ![p].ts = now]
             /\ pc' = [pc EXCEPT ![p] = "openMeta"]
        ELSE /\ Fails(p, "dataWrite")
             /\ UNCHANGED dataFile
    /\ UNCHANGED <<handlerRun, downloads, filterRun, now, events, store, metadataCache, metaFile, overlapped,
                   published>>

\* updateMetadata line 94, fs.writeFile(metadataPath, ...): open with O_TRUNC
\* (mapFirst: line 95 placed before line 94)
OpenMetaWith(p, mapFirst) ==
    /\ pc[p] = "openMeta"
    /\ \E ok \in BOOLEAN :
        IF ok
        THEN /\ metaFile' = [metaFile EXCEPT ![call[p].apiId] = Truncated]
             /\ call' = [call EXCEPT ![p].touched = @ \cup {"metaWrite"},
                                     ![p].steps = Append(@, "metaStart")]
             /\ pc' = [pc EXCEPT ![p] = "writeMeta"]
        ELSE /\ Fails(p, "metaWrite")
             /\ UNCHANGED metaFile
    /\ metadataCache' = IF mapFirst
                        THEN [metadataCache EXCEPT ![call[p].apiId] =
                                    <<Metadata(call[p].ts)>>]
                        ELSE metadataCache
    /\ UNCHANGED <<handlerRun, downloads, filterRun, now, events, store, dataFile, overlapped, published>>

\* mutation: updateMetadata sets the map before it writes the file
OpenMetaMapFirst(p) == OpenMetaWith(p, TRUE)

OpenMeta(p) == OpenMetaWith(p, FALSE)

\* updateMetadata line 94: the write of {"timestamp": ...}
WriteMeta(p) ==
    /\ pc[p] = "writeMeta"
    /\ \E ok \in BOOLEAN :
        LET c == call[p] IN
        IF ok
        THEN /\ metaFile' = [metaFile EXCEPT ![c.apiId] =
                                [exists |-> TRUE, text |-> <<Metadata(c.ts)>>]]
             /\ call' = [call EXCEPT ![p].steps = Append(@, "meta")]
             /\ published' = [published EXCEPT ![c.apiId] =
                    @ \cup {[timestamp |-> c.ts, payload |-> c.jsonData]}]
             /\ pc' = [pc EXCEPT ![p] = "setMap"]
        ELSE /\ Fails(p, "metaWrite")
             /\ UNCHANGED <<metaFile, published>>
    /\ UNCHANGED <<handlerRun, downloads, filterRun, now, events, store, metadataCache, dataFile, overlapped>>

\* mutation: the refresh returns what the payload file holds at the end
\* instead of the data it downloaded
SetMapFromFile(p) ==
    /\ pc[p] = "setMap"
    /\ LET c == call[p] IN
        /\ metadataCache' = [metadataCache EXCEPT ![c.apiId] = <<Metadata(c.ts)>>]
        /\ call' = [call EXCEPT ![p] =
                        Returned([c EXCEPT !.steps = Append(@, "map"),
                                           !.touched = @ \cup {"mapWrite"}],
                                 dataFile[c.apiId].text)]
    /\ pc' = [pc EXCEPT ![p] = "done"]
    /\ UNCHANGED <<handlerRun, downloads, filterRun, now, events, store, metaFile, dataFile, overlapped, published>>

\* mutation: the key of the map does not hold the id of the API
SetMapOneKey(p) ==
    /\ pc[p] = "setMap"
    /\ LET c == call[p] IN
        /\ metadataCache' = [i \in DOMAIN metadataCache |-> <<Metadata(c.ts)>>]
        /\ call' = [call EXCEPT ![p] =
                        Returned([c EXCEPT !.steps = Append(@, "map"),
                                           !.touched = @ \cup {"mapWrite"}],
                                 c.jsonData)]
    /\ pc' = [pc EXCEPT ![p] = "done"]
    /\ UNCHANGED <<handlerRun, downloads, filterRun, now, events, store, metaFile, dataFile, overlapped, published>>

\* updateMetadata line 95, metadataCache.set, and line 68, return jsonData
SetMap(p) ==
    /\ pc[p] = "setMap"
    /\ LET c == call[p] IN
        /\ metadataCache' = [metadataCache EXCEPT ![c.apiId] = <<Metadata(c.ts)>>]
        /\ call' = [call EXCEPT ![p] =
                        Returned([c EXCEPT !.steps = Append(@, "map"),
                                           !.touched = @ \cup {"mapWrite"}],
                                 c.jsonData)]
    /\ pc' = [pc EXCEPT ![p] = "done"]
    /\ UNCHANGED <<handlerRun, downloads, filterRun, now, events, store, metaFile, dataFile, overlapped, published>>

\* the caller has taken the result or the rejection of the promise
Return(p) ==
    /\ pc[p] = "done"
    /\ pc' = [pc EXCEPT ![p] = "idle"]
    /\ call' = [call EXCEPT ![p] = IdleCall]
    /\ UNCHANGED <<handlerRun, downloads, filterRun, now, events, store, cacheState, overlapped, published>>

(* ------------------------------------------------------------ environment *)
\* Date.now() advances
Tick ==
    /\ events < MaxEvents
    /\ \E d \in TickSteps : now' = now + d
    /\ events' = events + 1
    /\ UNCHANGED <<handlerRun, downloads, filterRun, store, cacheState, pc, call, overlapped, published>>

\* the owner of an API uploads a new data.json
StoreUpdate ==
    /\ \E apiId \in Ids :
        /\ events < MaxEvents
        /\ store' = [store EXCEPT ![apiId] = @ + 1]
    /\ events' = events + 1
    /\ UNCHANGED <<handlerRun, downloads, filterRun, now, cacheState, pc, call, overlapped, published>>

\* the idle instance is reclaimed: module state and /tmp are gone
Reclaim ==
    /\ events < MaxEvents
    /\ \A p \in Procs : pc[p] = "idle"
    /\ cacheState # <<[i \in Ids |-> <<>>], [i \in Ids |-> NoFile],
                      [i \in Ids |-> NoFile]>>
    /\ metadataCache' = [i \in Ids |-> <<>>]
    /\ metaFile' = [i \in Ids |-> NoFile]
    /\ dataFile' = [i \in Ids |-> NoFile]
    /\ overlapped' = [i \in Ids |-> FALSE]
    /\ published' = [i \in Ids |-> {}]
    /\ events' = events + 1
    /\ UNCHANGED <<handlerRun, filterRun, now, store, pc, call>>
    /\ downloads' = NoDownloads(downloads.recording)

Step(p) ==
    \/ Invoke(p)
    \/ BypassFetch(p)
    \/ ReadMeta(p)
    \/ GotMeta(p)
    \/ ReadData(p)
    \/ Mkdir(p)
    \/ Fetch(p)
    \/ OpenData(p)
    \/ WriteData1(p)
    \/ WriteData2(p)
    \/ OpenMeta(p)
    \/ WriteMeta(p)
    \/ SetMap(p)
    \/ Return(p)

Next ==
    \/ \E p \in Procs : Step(p)
    \/ Tick
    \/ StoreUpdate
    \/ Reclaim

Spec == Init /\ [][Next]_vars

TypeOK ==
    /\ now \in Nat
    /\ events \in 0..MaxEvents
    /\ store \in [Ids -> 1..MaxVersion]
    /\ \A i \in Ids : Len(metadataCache[i]) <= 1
    /\ pc \in [Procs -> {"idle", "bypassFetch", "readMeta", "gotMeta",
                         "readData", "mkdir", "fetch", "openData",
                         "writeData1", "writeData2", "openMeta", "writeMeta",
                         "setMap", "done"}]

(* ================================================================ claims *)
\* the dataset id of the invocation p after its step
IdOf(p) == call'[p].apiId

\* p takes a step
Moves(p) == pc'[p] # pc[p] \/ call'[p] # call[p]

\* the step of p at which line 49 tests the freshness, and the metadata that
\* getMetadata has found for it (<<>> for null)
CheckStep(p) == pc[p] \in {"idle", "gotMeta"} /\ pc'[p] \in {"readData", "mkdir"}

Found(p) ==
    IF pc[p] = "idle" THEN metadataCache[IdOf(p)]
    ELSE IF call[p].raw.exists /\ Len(call[p].raw.text) = 1
         THEN call[p].raw.text ELSE <<>>

\* pathSegments contains one of the four bypass keywords
HasKeyword(pathSegments) ==
    /\ pathSegments.defined
    /\ \E i \in 1..Len(pathSegments.segs) :
        pathSegments.segs[i] \in {"bao.ngo", "opensocial", "ngoduybao", "harrybaocorn"}

Done(p) == pc[p] = "done"

\* the payload p returned was fetched by a refresh that wrote timestamp t
FetchedAt(p, t) ==
    [timestamp |-> t, payload |-> call[p].result.value] \in published[call[p].apiId]

(* C1, as stated: every call that finds the entry fresh makes no download   *)
(* and returns the payload fetched by the refresh that wrote the timestamp  *)
(* it found.                                                                *)
C1_HitReturnsPayloadOfT ==
    \A p \in Procs :
        (Done(p) /\ call[p].outcome = "hit") =>
            /\ call[p].fetches = 0
            /\ call[p].result.ok
            /\ FetchedAt(p, call[p].metadata[1].timestamp)

(* C1, amended: a call whose freshness test finds now - T < cacheExpiration *)
(* goes on to read the payload file and never downloads; on an instance on  *)
(* which no two cache-using calls for the id were in flight together it     *)
(* succeeds with the payload fetched by the refresh that wrote T.           *)
C1_FreshHitServesCache ==
    [][\A p \in Procs :
        /\ ( /\ CheckStep(p)
             /\ Found(p) # <<>>
             /\ now - Found(p)[1].timestamp < cacheExpiration )
           => ( /\ pc'[p] = "readData"
                /\ call'[p].fetches = 0
                /\ call'[p].metadata = Found(p) )
        /\ (pc[p] = "readData" /\ Moves(p))
           => ( /\ pc'[p] = "done"
                /\ call'[p].fetches = 0
                /\ ~overlapped[IdOf(p)] =>
                    ( /\ call'[p].result.ok
                      /\ [timestamp |-> call[p].metadata[1].timestamp,
                          payload |-> call'[p].result.value]
                            \in published[IdOf(p)] ) )
      ]_vars

\* a hit at the last fresh instant, served from the cache although the store
\* has moved on to another version
C1_Witness ==
    \E p \in Procs :
        /\ Done(p) /\ call[p].outcome = "hit"
        /\ ~overlapped[call[p].apiId]
        /\ call[p].result.ok /\ call[p].fetches = 0
        /\ now - call[p].metadata[1].timestamp = cacheExpiration - 1
        /\ call[p].result.value # Dataset(call[p].apiId, store[call[p].apiId])

(* C2, as stated: a call that finds the entry stale downloads exactly once  *)
(* and, when the download succeeds, sets the timestamp in the durable file  *)
(* and in the map.                                                          *)
C2_StaleRefetchesOnce ==
    \A p \in Procs :
        (Done(p) /\ call[p].outcome = "miss") =>
            /\ call[p].fetches = 1
            /\ call[p].jsonData # <<>> =>
                 \E i, j \in 1..Len(call[p].steps) :
                    call[p].steps[i] = "meta" /\ call[p].steps[j] = "map"

(* C2, amended: a call whose freshness test finds now - T >= cacheExpiration*)
(* (equality included) goes to the refresh; it downloads at most once, and  *)
(* exactly once unless creating the scratch directory failed; when the      *)
(* download and both file writes succeed, it writes the time read right     *)
(* after the payload write to the durable metadata file and then to the map.*)
C2_StaleRefreshes ==
    [][\A p \in Procs :
        /\ ( /\ CheckStep(p)
             /\ Found(p) # <<>>
             /\ now - Found(p)[1].timestamp >= cacheExpiration )
           => (pc'[p] = "mkdir" /\ call'[p].fetches = 0)
        /\ call'[p].fetches <= 1
        /\ (pc'[p] = "done" /\ call'[p].outcome = "miss"
                /\ call'[p].failedAt # "mkdir")
           => call'[p].fetches = 1
        /\ (pc[p] = "writeData2" /\ pc'[p] = "openMeta")
           => call'[p].ts = now
        /\ (pc[p] = "writeMeta" /\ pc'[p] = "setMap")
           => metaFile'[IdOf(p)] =
                [exists |-> TRUE, text |-> <<[timestamp |-> call[p].ts]>>]
        /\ (pc[p] = "setMap" /\ Moves(p))
           => ( /\ metadataCache'[IdOf(p)] = <<[timestamp |-> call[p].ts]>>
                /\ call'[p].result.ok
                /\ call'[p].result.value = call[p].jsonData )
        /\ (pc'[p] = "done" /\ call'[p].outcome = "miss" /\ call'[p].result.ok)
           => call'[p].steps = <<"data", "metaStart", "meta", "map">>
      ]_vars

\* a refresh of an entry found exactly cacheExpiration old has just set the
\* map to the new time
C2_Witness ==
    \E p \in Procs :
        /\ Done(p) /\ call[p].outcome = "miss" /\ call[p].result.ok
        /\ call[p].fetches = 1
        /\ call[p].ts = cacheExpiration
        /\ now = cacheExpiration
        /\ \E e \in published[call[p].apiId] : e.timestamp = 0
        /\ metadataCache[call[p].apiId] = <<[timestamp |-> call[p].ts]>>
        /\ metaFile[call[p].apiId].text = <<[timestamp |-> call[p].ts]>>

(* C3: a call whose path segments contain a bypass keyword downloads from   *)
(* the store and neither reads nor writes the map, the metadata file or the *)
(* payload file, whatever the state of the entry.                           *)
C3_BypassLeavesCacheAlone ==
    [][\A p \in Procs :
        (Moves(p) /\ pc'[p] # "idle" /\ HasKeyword(call'[p].pathSegments)) =>
            /\ UNCHANGED cacheState
            /\ call'[p].touched = {}
            /\ pc'[p] \in {"bypassFetch", "done"}
            /\ pc'[p] = "done" =>
                ( /\ call'[p].fetches = 1
                  /\ call'[p].result.ok =>
                        call'[p].result.value = Dataset(IdOf(p), store[IdOf(p)]) )
      ]_vars

\* a bypass call has returned the store's new version while a fresh entry
\* with the old version stays in place
C3_Witness ==
    \E p \in Procs :
        /\ Done(p) /\ HasKeyword(call[p].pathSegments)
        /\ call[p].result.ok /\ call[p].fetches = 1
        /\ metadataCache[call[p].apiId] # <<>>
        /\ now - metadataCache[call[p].apiId][1].timestamp < cacheExpiration
        /\ ParsesAsData(dataFile[call[p].apiId])
        /\ dataFile[call[p].apiId].text # call[p].result.value

(* C4, as stated: no call observes or returns a payload that is not the     *)
(* complete result of one single store fetch, under every interleaving.     *)
C4_NoTornPayload ==
    \A p \in Procs :
        Done(p) =>
            /\ call[p].result.ok =>
                call[p].result.value \in CompleteDatasets(call[p].apiId)
            /\ call[p].outcome = "hit" =>
                ( /\ call[p].observed.exists
                  /\ call[p].observed.text \in CompleteDatasets(call[p].apiId) )

(* C5: a call that finds the entry stale or absent and whose download fails *)
(* fails; it does not return the payload file's content.                    *)
C5_NoStaleOnError ==
    \A p \in Procs :
        ( /\ Done(p)
          /\ call[p].outcome = "miss"
          /\ call[p].fetches > 0
          /\ call[p].jsonData = <<>> )
        => ( /\ ~call[p].result.ok
             /\ call[p].result.value = <<>> )

\* the download of a refresh failed while a complete stale payload was there
C5_Witness ==
    \E p \in Procs :
        /\ Done(p) /\ call[p].outcome = "miss"
        /\ call[p].fetches = 1 /\ call[p].jsonData = <<>>
        /\ ~call[p].result.ok
        /\ ParsesAsData(dataFile[call[p].apiId])
        /\ metadataCache[call[p].apiId] # <<>>
        /\ now - metadataCache[call[p].apiId][1].timestamp >= cacheExpiration

(* C6: when the metadata is fresh and the payload file cannot be read or    *)
(* parsed, the call fails, makes no download and writes neither the payload *)
(* nor the metadata.                                                        *)
C6_CorruptionSurfaces ==
    [][\A p \in Procs :
        ( /\ pc[p] = "readData" /\ Moves(p)
          /\ ~( /\ dataFile[IdOf(p)].exists
                /\ Len(dataFile[IdOf(p)].text) = 2
                /\ \A i \in 1..2 : dataFile[IdOf(p)].text[i] # Hole ) )
        => ( /\ pc'[p] = "done"
             /\ ~call'[p].result.ok
             /\ call'[p].fetches = 0
             /\ call'[p].touched \subseteq {"mapRead", "mapWrite", "metaRead", "dataRead"}
             /\ UNCHANGED cacheState )
      ]_vars

\* a hit has found the payload file unreadable and failed
C6_Witness ==
    \E p \in Procs :
        /\ Done(p) /\ call[p].outcome = "hit"
        /\ ~ParsesAsData(call[p].observed)
        /\ ~call[p].result.ok /\ call[p].fetches = 0

(* C7, as stated: a failed store fetch and an unreadable payload under      *)
(* fresh metadata reject with errors the caller can tell apart.             *)
C7_ErrorKindsDistinguishable ==
    \A p, q \in Procs :
        ( /\ Done(p) /\ ~call[p].result.ok /\ call[p].failedAt = "fetch"
          /\ Done(q) /\ ~call[q].result.ok /\ call[q].failedAt = "corrupt" )
        => call[p].result # call[q].result

(* C7, amended: every failure of the get operation rejects with the same    *)
(* Error("Failed to fetch API data"); the error does not tell the causes    *)
(* apart.                                                                   *)
C7_OneErrorForAll ==
    \A p \in Procs :
        (Done(p) /\ ~call[p].result.ok) =>
            call[p].result = [ok |-> FALSE, value |-> <<>>,
                              message |-> "Failed to fetch API data"]

\* a failed fetch and a corrupt cache have produced the same rejection
C7_Witness ==
    \E p, q \in Procs :
        /\ Done(p) /\ ~call[p].result.ok /\ call[p].failedAt = "fetch"
        /\ Done(q) /\ ~call[q].result.ok /\ call[q].failedAt = "corrupt"
        /\ call[p].result = call[q].result

(* C8, as stated: a miss whose download succeeds returns the fetched        *)
(* payload, and get fails only when the store fetch failed or fresh         *)
(* metadata has an unreadable payload (read here for the calls that pass    *)
(* path segments).                                                          *)
C8_OnlyTwoFailures ==
    \A p \in Procs :
        (Done(p) /\ call[p].pathSegments.defined) =>
            /\ (call[p].outcome = "miss" /\ call[p].jsonData # <<>>)
                => ( /\ call[p].result.ok
                     /\ call[p].result.value = call[p].jsonData )
            /\ ~call[p].result.ok
                => \/ (call[p].fetches > 0 /\ call[p].jsonData = <<>>)
                   \/ (call[p].outcome = "hit" /\ ~ParsesAsData(call[p].observed))

(* C8, amended: a miss returns the fetched payload exactly when the         *)
(* directory creation, the download, the payload write and the metadata     *)
(* write all succeed; get fails when pathSegments is undefined, the         *)
(* directory creation fails, the download fails, the payload or metadata    *)
(* write fails, or fresh metadata has an unreadable payload, and in no      *)
(* other case.                                                              *)
C8_FailureConditions ==
    \A p \in Procs :
        Done(p) =>
            /\ call[p].result.ok <=>
                \/ (call[p].outcome = "bypass" /\ call[p].jsonData # <<>>)
                \/ (call[p].outcome = "hit" /\ ParsesAsData(call[p].observed))
                \/ ( /\ call[p].outcome = "miss"
                     /\ call[p].jsonData # <<>>
                     /\ call[p].steps = <<"data", "metaStart", "meta", "map">> )
            /\ call[p].result.ok <=> call[p].failedAt = "none"
            /\ (call[p].result.ok /\ call[p].outcome = "miss")
                => call[p].result.value = call[p].jsonData
            /\ call[p].failedAt \in
                {"none", "segments", "mkdir", "fetch", "dataWrite",
                 "metaWrite", "corrupt"}

\* the download succeeded and the request failed on the metadata write
C8_Witness ==
    \E p \in Procs :
        /\ Done(p) /\ call[p].outcome = "miss"
        /\ call[p].jsonData # <<>>
        /\ call[p].failedAt = "metaWrite"
        /\ ~call[p].result.ok

\* position of the first occurrence of x in the sequence, 0 if none
Pos(seq, x) ==
    IF \E i \in 1..Len(seq) : seq[i] = x
    THEN CHOOSE i \in 1..Len(seq) :
            seq[i] = x /\ \A j \in 1..(i - 1) : seq[j] # x
    ELSE 0

Before(seq, x, y) == Pos(seq, y) > 0 => (Pos(seq, x) > 0 /\ Pos(seq, x) < Pos(seq, y))

(* C9: within one refresh the payload write completes before the metadata  *)
(* write starts, the metadata write completes before the map entry is set,  *)
(* and a failed metadata write leaves the map as it was.                    *)
C9_PublishOrder ==
    [][\A p \in Procs :
        /\ Before(call'[p].steps, "data", "metaStart")
        /\ Before(call'[p].steps, "metaStart", "meta")
        /\ Before(call'[p].steps, "meta", "map")
        /\ (Moves(p) /\ call'[p].outcome = "miss" /\ pc[p] # "gotMeta") =>
            /\ dataFile' # dataFile => Pos(call[p].steps, "metaStart") = 0
            /\ metaFile' # metaFile =>
                ( /\ Pos(call[p].steps, "data") > 0
                  /\ Pos(call[p].steps, "map") = 0
                  /\ call'[p].jsonData = dataFile[IdOf(p)].text
                        \/ overlapped[IdOf(p)] )
            /\ metadataCache' # metadataCache =>
                ( /\ Pos(call[p].steps, "meta") > 0
                  /\ metaFile[IdOf(p)].text = <<[timestamp |-> call[p].ts]>>
                        \/ overlapped[IdOf(p)] )
            /\ (pc[p] \in {"openMeta", "writeMeta"} /\ ~(pc'[p] \in {"writeMeta", "setMap"}))
                => ( /\ pc'[p] = "done"
                     /\ ~call'[p].result.ok
                     /\ UNCHANGED metadataCache )
      ]_vars

\* a refresh has published payload, durable metadata and map entry; and
\* another one has failed on its metadata write
C9_Witness ==
    \E p, q \in Procs :
        /\ Done(p) /\ call[p].steps = <<"data", "metaStart", "meta", "map">>
        /\ Done(q) /\ call[q].failedAt = "metaWrite"
        /\ metadataCache[call[p].apiId] = <<[timestamp |-> call[p].ts]>>

(* C10: getMetadata returns the map entry when there is one and then does   *)
(* not read the metadata file; without a map entry it reads the file and,   *)
(* when that parses, stores it in the map, so a fresh durable entry gives a *)
(* hit without download; when neither exists the call is a miss.            *)
C10_LookupOrder ==
    [][\A p \in Procs :
        /\ ( /\ pc[p] = "idle" /\ pc'[p] # "idle"
             /\ call'[p].pathSegments.defined
             /\ ~HasKeyword(call'[p].pathSegments) )
           => IF metadataCache[IdOf(p)] # <<>>
              THEN /\ pc'[p] \in {"readData", "mkdir"}
                   /\ "metaRead" \notin call'[p].touched
                   /\ pc'[p] = "readData" <=>
                        now - metadataCache[IdOf(p)][1].timestamp < cacheExpiration
              ELSE /\ pc'[p] = "readMeta"
                   /\ call'[p].outcome = "none"
        /\ (pc[p] = "readMeta" /\ Moves(p))
           => ( /\ call'[p].raw = metaFile[IdOf(p)]
                /\ pc'[p] = "gotMeta"
                /\ UNCHANGED cacheState )
        /\ (pc[p] = "gotMeta" /\ Moves(p))
           => IF Found(p) # <<>>
              THEN /\ metadataCache'[IdOf(p)] = Found(p)
                   /\ call'[p].fetches = 0
                   /\ IF now - Found(p)[1].timestamp < cacheExpiration
                      THEN pc'[p] = "readData" /\ call'[p].outcome = "hit"
                      ELSE pc'[p] = "mkdir" /\ call'[p].outcome = "miss"
              ELSE /\ pc'[p] = "mkdir" /\ call'[p].outcome = "miss"
                   /\ UNCHANGED metadataCache
        /\ (pc'[p] = "done" /\ call'[p].outcome = "hit") => call'[p].fetches = 0
      ]_vars

\* a call without map entry has read a fresh durable entry and returned the
\* payload file's content without download, leaving the entry in the map
C10_Witness ==
    \E p \in Procs :
        /\ Done(p) /\ call[p].outcome = "hit"
        /\ "metaRead" \in call[p].touched
        /\ call[p].result.ok /\ call[p].fetches = 0
        /\ metadataCache[call[p].apiId] = call[p].metadata

\* the state of the entry of apiId as its durable metadata gives it at time t
EntryState(apiId, t) ==
    IF ~ParsesAsMetadata(metaFile[apiId]) THEN "Absent"
    ELSE IF t - metaFile[apiId].text[1].timestamp < cacheExpiration THEN "Fresh"
    ELSE "Stale"

EntryStateNext(apiId) ==
    IF ~(metaFile'[apiId].exists /\ Len(metaFile'[apiId].text) = 1) THEN "Absent"
    ELSE IF now' - metaFile'[apiId].text[1].timestamp < cacheExpiration THEN "Fresh"
    ELSE "Stale"

\* the step is one of a cache-using call for apiId whose download succeeded
RefreshStep(apiId) ==
    \E p \in Procs :
        /\ Moves(p)
        /\ call'[p].apiId = apiId
        /\ call'[p].outcome = "miss"
        /\ call'[p].jsonData # <<>>

\* the instance is reclaimed in this step
ReclaimStep ==
    /\ \A p \in Procs : pc[p] = "idle" /\ pc'[p] = "idle"
    /\ \A i \in Ids : metaFile'[i] = NoFile /\ dataFile'[i] = NoFile

(* C11, as stated: on one instance the durable metadata and the payload     *)
(* change only in steps of a cache-using call whose download succeeded; the *)
(* entry goes from Fresh to Stale only when the clock advances, and from    *)
(* Stale or Absent to Fresh only by such a call.                            *)
C11_EntryStateMachine ==
    [][\A i \in Ids :
        ReclaimStep \/
        ( /\ (metaFile'[i] # metaFile[i] \/ dataFile'[i] # dataFile[i])
                => RefreshStep(i)
          /\ (EntryState(i, now) = "Fresh" /\ EntryStateNext(i) = "Stale")
                => now' # now
          /\ (EntryState(i, now) # "Fresh" /\ EntryStateNext(i) = "Fresh")
                => RefreshStep(i) )
      ]_vars

(* C11, amended: the durable metadata and the payload change only in steps  *)
(* of a cache-using call whose download succeeded (also one that fails      *)
(* later on a write), or when the instance is reclaimed; hits, bypass calls *)
(* and calls whose download failed never change them; the entry becomes     *)
(* Fresh only by the metadata write of such a call; it goes from Fresh to   *)
(* Stale when the clock advances or, on an instance on which cache-using    *)
(* calls for the id have overlapped, when a refresh writes a timestamp older*)
(* than the one in place.                                                   *)
C11_EntryTransitions ==
    [][\A i \in Ids :
        ReclaimStep \/
        ( /\ (metaFile'[i] # metaFile[i] \/ dataFile'[i] # dataFile[i])
                => RefreshStep(i)
          /\ \A p \in Procs :
                ( /\ Moves(p)
                  /\ \/ call'[p].outcome \in {"hit", "bypass"}
                     \/ call'[p].jsonData = <<>> )
                => UNCHANGED <<metaFile, dataFile>>
          /\ (EntryState(i, now) = "Fresh" /\ EntryStateNext(i) = "Stale")
                => \/ now' # now
                   \/ /\ overlapped[i]
                      /\ \E p \in Procs :
                            /\ pc[p] = "writeMeta" /\ pc'[p] = "setMap"
                            /\ metaFile'[i].text = <<[timestamp |-> call[p].ts]>>
          /\ (EntryState(i, now) # "Fresh" /\ EntryStateNext(i) = "Fresh")
                => \E p \in Procs :
                        /\ pc[p] = "writeMeta" /\ pc'[p] = "setMap"
                        /\ call[p].apiId = i
                        /\ call[p].jsonData # <<>>
                        /\ metaFile'[i].text = <<[timestamp |-> call[p].ts]>> )
      ]_vars

\* the durable timestamp is stale although a refresh has written a fresh one
\* before: a slower overlapping refresh has written its older timestamp over it
C11_Witness ==
    \E i \in Ids :
        /\ EntryState(i, now) = "Stale"
        /\ \E e \in published[i] :
            /\ now - e.timestamp < cacheExpiration
            /\ e.timestamp > metaFile[i].text[1].timestamp

\* positions of a refresh after its download
PostFetch == {"openData", "writeData1", "writeData2", "openMeta", "writeMeta",
              "setMap"}

\* q is in the middle of a refresh of the same dataset as p, downloaded
Refreshing(q, p) ==
    /\ q # p
    /\ pc[q] \in PostFetch
    /\ call[q].apiId = call[p].apiId
    /\ call[q].outcome = "miss"
    /\ call[q].fetches = 1

(* C12, as stated: when two cache-using calls for one dataset are refreshing*)
(* at the same time and both downloads have succeeded, the call that        *)
(* finishes returns a complete fetched payload.                             *)
C12_DuplicateRefreshBothReturn ==
    [][\A p, q \in Procs :
        ( /\ Refreshing(q, p) /\ Refreshing(p, q)
          /\ pc'[p] = "done" )
        => ( /\ call'[p].result.ok
             /\ call'[p].result.value \in CompleteDatasets(call[p].apiId) )
      ]_vars

(* C12, amended: nothing coalesces refreshes: a call that finds no fresh    *)
(* entry goes to the refresh and downloads also while another call is       *)
(* refreshing the same dataset; a call whose download succeeded returns the *)
(* complete payload it downloaded itself when its payload and metadata      *)
(* writes succeed, and fails when one of them fails.                        *)
C12_DuplicateRefreshTolerated ==
    [][\A p \in Procs :
        /\ ( /\ CheckStep(p)
             /\ \/ Found(p) = <<>>
                \/ now - Found(p)[1].timestamp >= cacheExpiration )
           => pc'[p] = "mkdir"
        /\ (pc[p] = "fetch" /\ Moves(p))
           => ( /\ call'[p].fetches = call[p].fetches + 1
                /\ pc'[p] \in {"openData", "done"}
                /\ pc'[p] = "openData" =>
                    call'[p].jsonData = Dataset(IdOf(p), store[IdOf(p)]) )
        /\ (pc[p] \in PostFetch /\ pc'[p] = "done")
           => IF pc[p] = "setMap"
              THEN /\ call'[p].result.ok
                   /\ call'[p].result.value = call[p].jsonData
                   /\ call'[p].result.value \in CompleteDatasets(IdOf(p))
              ELSE /\ ~call'[p].result.ok
                   /\ call'[p].failedAt \in {"dataWrite", "metaWrite"}
      ]_vars

\* two calls have both missed, both downloaded and both returned a complete
\* payload; no entry can have gone stale yet, so the second one missed
\* because it checked before the first one had published its timestamp
C12_Witness ==
    \E p, q \in Procs :
        /\ p # q
        /\ now < cacheExpiration
        /\ \A r \in {p, q} :
            /\ Done(r) /\ call[r].outcome = "miss" /\ call[r].fetches = 1
            /\ call[r].result.ok
            /\ call[r].result.value \in CompleteDatasets(call[r].apiId)
        /\ call[p].apiId = call[q].apiId
        /\ call[p].result.value # call[q].result.value

(* C13: every call, bypass, hit or miss, invokes the store download at most *)
(* once, and a call whose download fails ends there, rejected, without      *)
(* another attempt.                                                         *)
C13_NoRetry ==
    [][\A p \in Procs :
        /\ call'[p].fetches <= 1
        /\ call'[p].outcome = "hit" => call'[p].fetches = 0
        /\ (pc[p] \in {"fetch", "bypassFetch"} /\ Moves(p))
           => ( /\ call'[p].fetches = 1
                /\ call'[p].jsonData = <<>> =>
                    ( /\ pc'[p] = "done"
                      /\ ~call'[p].result.ok
                      /\ call'[p].failedAt = "fetch" ) )
        /\ (pc[p] = "done" /\ pc'[p] # "idle")
           => (pc'[p] = "done" /\ call'[p] = call[p])
      ]_vars

\* a bypass call and a refresh have both failed on their one download
C13_Witness ==
    \E p, q \in Procs :
        /\ Done(p) /\ call[p].outcome = "bypass"
        /\ Done(q) /\ call[q].outcome = "miss"
        /\ \A r \in {p, q} :
            /\ call[r].fetches = 1
            /\ call[r].failedAt = "fetch"
            /\ ~call[r].result.ok

(* C14, as stated: a cache-using call (one that passes path segments) on an *)
(* instance on which no metadata has been written since it started, and     *)
(* whose download succeeded, succeeds.                                      *)
C14_FirstGetSucceeds ==
    \A p \in Procs :
        ( /\ Done(p)
          /\ call[p].pathSegments.defined
          /\ call[p].outcome = "miss"
          /\ call[p].jsonData # <<>>
          /\ metaFile[call[p].apiId] = NoFile
          /\ published[call[p].apiId] = {} )
        => call[p].result.ok

(* C14, amended: a reclaim leaves the instance without map entry and without*)
(* scratch files; a cache-using call that finds neither a map entry nor a   *)
(* readable metadata file does not fail on that: it is a miss and goes to   *)
(* the refresh; a miss fails only on the creation of the directory, the     *)
(* download or the write of the payload or metadata file, and when all of   *)
(* these succeed it returns the downloaded payload.                         *)
C14_AbsenceIsAMiss ==
    [][/\ ( /\ \A p \in Procs : pc[p] = "idle" /\ pc'[p] = "idle"
            /\ cacheState' # cacheState )
          => ( /\ metadataCache' = [i \in Ids |-> <<>>]
               /\ metaFile' = [i \in Ids |-> NoFile]
               /\ dataFile' = [i \in Ids |-> NoFile] )
       /\ \A p \in Procs :
            /\ ( /\ pc[p] = "idle" /\ pc'[p] # "idle"
                 /\ call'[p].pathSegments.defined
                 /\ ~HasKeyword(call'[p].pathSegments)
                 /\ metadataCache[IdOf(p)] = <<>> )
               => (pc'[p] = "readMeta" /\ call'[p].failedAt = "none")
            /\ (pc[p] = "readMeta" /\ Moves(p))
               => (pc'[p] = "gotMeta" /\ call'[p].failedAt = "none")
            /\ (pc[p] = "gotMeta" /\ Moves(p) /\ Found(p) = <<>>)
               => ( /\ pc'[p] = "mkdir"
                    /\ call'[p].outcome = "miss"
                    /\ call'[p].failedAt = "none" )
            /\ (pc'[p] = "done" /\ call'[p].outcome = "miss")
               => IF call'[p].result.ok
                  THEN /\ call'[p].steps = <<"data", "metaStart", "meta", "map">>
                       /\ call'[p].fetches = 1
                       /\ call'[p].result.value = call'[p].jsonData
                       /\ call'[p].jsonData \in CompleteDatasets(IdOf(p))
                  ELSE call'[p].failedAt \in
                            {"mkdir", "fetch", "dataWrite", "metaWrite"}
            /\ (pc[p] = "setMap" /\ Moves(p)) => call'[p].result.ok
      ]_vars

\* the only event so far was a reclaim (the clock and the store have not
\* moved), and the first call on the new instance has missed, refreshed and
\* returned the store's data
C14_Witness ==
    \E p \in Procs :
        /\ Done(p) /\ call[p].outcome = "miss"
        /\ events > 0 /\ now = 0 /\ store[call[p].apiId] = 1
        /\ "metaRead" \in call[p].touched
        /\ call[p].result.ok
        /\ call[p].result.value = Dataset(call[p].apiId, 1)
        /\ ~overlapped[call[p].apiId]
        /\ published[call[p].apiId] =
                {[timestamp |-> call[p].ts, payload |-> call[p].result.value]}

(* C15, as stated: a call that processQuery of src/lambda/index.js makes,   *)
(* without path segments, uses the cache: it looks up the entry and ends as *)
(* a hit that returns the cached payload or as a miss that downloads, and   *)
(* it succeeds when the cache is readable or the download and the writes    *)
(* succeed.                                                                 *)
C15_ProcessQueryUsesCache ==
    \A p \in Procs :
        (Done(p) /\ ~call[p].pathSegments.defined) =>
            /\ call[p].outcome \in {"hit", "miss"}
            /\ "mapRead" \in call[p].touched
            /\ call[p].failedAt # "segments"

\* a miss of p whose download failed
FailedRefresh(p) ==
    /\ Done(p)
    /\ call[p].outcome = "miss"
    /\ call[p].failedAt = "fetch"

\* C27 as stated: a miss whose download failed has written neither the
\* payload file nor the metadata file nor the map.
C27_FailedRefreshChangesNothing ==
    \A p \in Procs :
        FailedRefresh(p) =>
            call[p].touched \cap {"mapWrite", "metaWrite", "dataWrite"} = {}

\* the positions of a call up to its download
UpToFetch == {"idle", "readMeta", "gotMeta", "mkdir", "fetch"}

\* C27, amended: a miss whose download failed has written neither file;
\* up to the download a call changes the map only in getMetadata, to the
\* metadata it has read from the metadata file.
C27_FailedRefreshOnlyRehydrates ==
    /\ [](\A p \in Procs :
            FailedRefresh(p) =>
                /\ call[p].touched \subseteq {"mapRead", "metaRead", "mapWrite"}
                /\ "mapWrite" \in call[p].touched => "metaRead" \in call[p].touched)
    /\ [][\A p \in Procs :
            pc'[p] # pc[p] /\ pc[p] \in UpToFetch =>
                /\ UNCHANGED <<metaFile, dataFile>>
                /\ metadataCache' # metadataCache =>
                        /\ pc[p] = "gotMeta"
                        /\ metadataCache'[call[p].apiId] = call[p].raw.text]_vars

\* a miss that took its stale metadata from the file, stored it in the map,
\* and whose download then failed
C27_Witness ==
    \E p \in Procs :
        /\ FailedRefresh(p)
        /\ "mapWrite" \in call[p].touched
        /\ metadataCache[call[p].apiId] # <<>>

\* C28 as stated: when the map holds timestamp t for an API, the metadata
\* file of the API holds a timestamp of at least t.
C28_DurableNotOlder ==
    \A apiId \in Ids :
        metadataCache[apiId] # <<>> =>
            /\ ParsesAsMetadata(metaFile[apiId])
            /\ metaFile[apiId].text[1].timestamp >= metadataCache[apiId][1].timestamp

\* no invocation for the API is between its entry and its return
Quiet(apiId) == \A p \in Procs : ~InProgress(p, apiId)

\* C29 as stated: when no call for the API is in progress and the map has
\* an entry for it, the entry equals the content of the metadata file.
C29_MirrorConverges ==
    \A apiId \in Ids :
        Quiet(apiId) /\ metadataCache[apiId] # <<>> =>
            /\ ParsesAsMetadata(metaFile[apiId])
            /\ metaFile[apiId].text = metadataCache[apiId]

\* getMetadata of p has read a metadata file that is missing or does not
\* parse
ReadUnreadable(p) == pc[p] = "gotMeta" /\ ~ParsesAsMetadata(call[p].raw)

\* C33: a call that finds no map entry reads the metadata file; when the
\* file is missing or does not parse (also while another call is writing
\* it) the lookup returns null without failing the call and without storing
\* anything in the map, and the call is a miss that goes on to the refresh:
\* it creates the directory and downloads.
C33_UnreadableMetadataIsMiss ==
    /\ [](\A p \in Procs :
            /\ pc[p] \in {"readMeta", "gotMeta"} => call[p].result = IdleCall.result
            /\ (pc[p] = "fetch" /\ call[p].outcome = "miss") => call[p].fetches = 0)
    /\ [][\A p \in Procs :
            /\ (ReadUnreadable(p) /\ Moves(p)) =>
                    /\ pc'[p] = "mkdir"
                    /\ call'[p].outcome = "miss"
                    /\ call'[p].metadata = <<>>
                    /\ call'[p].result = IdleCall.result
                    /\ "mapWrite" \notin call'[p].touched
                    /\ UNCHANGED cacheState
            /\ (pc[p] = "mkdir" /\ Moves(p)) =>
                    \/ pc'[p] = "fetch"
                    \/ pc'[p] = "done" /\ call'[p].failedAt = "mkdir"
            /\ (pc[p] = "fetch" /\ Moves(p)) => call'[p].fetches = 1
       ]_vars

\* a miss of a call that read the metadata file while the refresh of the
\* other call has it open, truncated; the map has no entry
C33_Witness ==
    \E p, q \in Procs :
        /\ pc[p] = "fetch" /\ call[p].outcome = "miss"
        /\ call[p].touched = {"mapRead", "metaRead"}
        /\ pc[q] = "writeMeta"
        /\ metaFile[call[p].apiId] = Truncated
        /\ metadataCache[call[p].apiId] = <<>>

(* The bypass test on more paths: one invocation at a time, with a keyword  *)
(* as tenant, endpoint, operation or seventh segment, inside a longer        *)
(* segment, and with none.                                                   *)
Path(segs) == [defined |-> TRUE, segs |-> segs]

SegmentPaths ==
    { PlainPath, BypassPath,
      Path(<<"v1", "api", "use", "acme", "opensocial", "search">>),
      Path(<<"v1", "api", "use", "acme", "users", "ngoduybao">>),
      Path(<<"v1", "api", "use", "acme", "users", "search", "harrybaocorn">>),
      Path(<<"v1", "api", "use", "bao.ngo.vn", "users", "search">>),
      Path(<<"v1", "api", "use", "acme", "myopensocial", "search">>) }

\* the steps of an invocation after its entry
Continue(p) ==
    \/ BypassFetch(p)
    \/ ReadMeta(p)
    \/ GotMeta(p)
    \/ ReadData(p)
    \/ Mkdir(p)
    \/ Fetch(p)
    \/ OpenData(p)
    \/ WriteData1(p)
    \/ WriteData2(p)
    \/ OpenMeta(p)
    \/ WriteMeta(p)
    \/ SetMap(p)
    \/ Return(p)

BypassNext ==
    \/ InvokeWith("p1", Ids, SegmentPaths)
    \/ Continue("p1")
    \/ Tick

BypassSpec == Init /\ [][BypassNext]_vars

\* the entry of an invocation of p
Enters(p) == pc[p] = "idle" /\ pc'[p] # "idle"

\* C34: a call bypasses the cache exactly when one of its path segments
\* equals a bypass keyword, wherever the segment stands; a segment that
\* only contains a keyword does not bypass.
C34_WholeSegmentMatch ==
    [][\A p \in Procs : (Enters(p) /\ call'[p].pathSegments.defined) =>
        /\ (call'[p].outcome = "bypass") <=>
                \E i \in 1..Len(call'[p].pathSegments.segs) :
                    call'[p].pathSegments.segs[i] \in CACHE_BYPASS_KEYWORDS
        /\ (call'[p].outcome = "bypass") <=> pc'[p] = "bypassFetch"
        /\ (call'[p].outcome # "bypass") => "mapRead" \in call'[p].touched
      ]_vars

\* a call whose tenant segment contains a keyword inside a longer text was
\* served from the cache
C34_Witness ==
    /\ pc["p1"] = "done"
    /\ call["p1"].pathSegments
            = Path(<<"v1", "api", "use", "bao.ngo.vn", "users", "search">>)
    /\ call["p1"].outcome = "hit"
    /\ call["p1"].result.ok
    /\ call["p1"].fetches = 0

(* Two datasets on one instance: the calls of p1 are for ds1, the calls of  *)
(* p2 for ds2, in every interleaving.                                       *)
TenantIds == {"ds1", "ds2"}

IdFor(p) == IF p = "p1" THEN "ds1" ELSE "ds2"

IsolationInit ==
    /\ now = 0
    /\ events = 0
    /\ store = [i \in TenantIds |-> 1]
    /\ metadataCache = [i \in TenantIds |-> <<>>]
    /\ metaFile = [i \in TenantIds |-> NoFile]
    /\ dataFile = [i \in TenantIds |-> NoFile]
    /\ pc = [p \in Procs |-> "idle"]
    /\ call = [p \in Procs |-> IdleCall]
    /\ overlapped = [i \in TenantIds |-> FALSE]
    /\ published = [i \in TenantIds |-> {}]
    /\ downloads = NoDownloads(FALSE)
    /\ filterRun = IdleRun
    /\ handlerRun = IdleRequest

IsolationNext ==
    \/ \E p \in Procs : InvokeWith(p, {IdFor(p)}, {PlainPath, BypassPath})
    \/ \E p \in Procs : Continue(p)
    \/ Tick

IsolationSpec == IsolationInit /\ [][IsolationNext]_vars

\* the entry, the metadata file and the payload file of an API
Entry(apiId) == <<metadataCache[apiId], metaFile[apiId], dataFile[apiId]>>

\* C31: a step of a call for one dataset leaves the map entry, the metadata
\* file and the payload file of every other dataset unchanged; what the call
\* reads (the metadata file, the payload file, the entry tested for
\* freshness) is that of its own dataset, and the payload it returns is a
\* dataset downloaded for its own id.
C31_PerDatasetIsolation ==
    /\ [](\A p \in Procs :
            (Done(p) /\ call[p].result.ok) =>
                /\ \A i \in 1..Len(call[p].result.value) :
                        call[p].result.value[i].ds = call[p].apiId
                /\ call[p].outcome = "hit" =>
                        call[p].result.value = call[p].observed.text)
    /\ [][\A p \in Procs : Moves(p) =>
            /\ \A apiId \in TenantIds \ {IdFor(p)} : Entry(apiId)' = Entry(apiId)
            /\ pc[p] = "readMeta" => call'[p].raw = metaFile[IdFor(p)]
            /\ pc[p] = "readData" => call'[p].observed = dataFile[IdFor(p)]
            /\ (pc[p] = "idle" /\ call'[p].outcome \in {"hit", "miss"}) =>
                    call'[p].outcome = IF IsFresh(metadataCache[IdFor(p)], now)
                                       THEN "hit" ELSE "miss"
            /\ (pc[p] \in {"fetch", "bypassFetch"} /\ call'[p].jsonData # <<>>) =>
                    call'[p].jsonData = Dataset(IdFor(p), store[IdFor(p)])
       ]_vars

\* the call for ds1 was a hit on its own payload while the entry of ds2 is
\* stale and the call for ds2 is rewriting the payload of ds2
C31_Witness ==
    /\ Done("p1") /\ call["p1"].outcome = "hit" /\ call["p1"].result.ok
    /\ call["p1"].result.value = Dataset("ds1", 1)
    /\ pc["p2"] = "writeData1"
    /\ dataFile["ds2"] = Truncated
    /\ metadataCache["ds2"] # <<>>

(* The behaviours that keep the history of the downloads: the same steps,  *)
(* with the time of every download and of every freshness test recorded.    *)
RecordedInit ==
    /\ now = 0
    /\ events = 0
    /\ store = [i \in Ids |-> 1]
    /\ metadataCache = [i \in Ids |-> <<>>]
    /\ metaFile = [i \in Ids |-> NoFile]
    /\ dataFile = [i \in Ids |-> NoFile]
    /\ pc = [p \in Procs |-> "idle"]
    /\ call = [p \in Procs |-> IdleCall]
    /\ overlapped = [i \in Ids |-> FALSE]
    /\ published = [i \in Ids |-> {}]
    /\ downloads = NoDownloads(TRUE)
    /\ filterRun = IdleRun
    /\ handlerRun = IdleRequest

RecordedSpec == RecordedInit /\ [][Next]_vars

\* version v of the dataset was downloaded less than cacheExpiration before
\* the freshness test of p
DownloadedInWindow(p, v) ==
    /\ downloads.at[call[p].apiId][v] >= 0
    /\ call[p].checkedAt - downloads.at[call[p].apiId][v] < cacheExpiration

\* C30 as stated: every payload returned by a get that did not bypass the
\* cache is a dataset whose download completed less than cacheExpiration
\* before the freshness test of that get.
C30_BoundedStaleness ==
    \A p \in Procs :
        (Done(p) /\ call[p].outcome \in {"hit", "miss"} /\ call[p].result.ok) =>
            \E v \in 1..MaxVersion :
                /\ call[p].result.value = Dataset(call[p].apiId, v)
                /\ DownloadedInWindow(p, v)

(* ============================================== the filter of processQuery *)
\* longest query-string value and longest dataset of a run of the filter
MaxValueLen == 4
MaxRecords == 3

(* Strings are sequences of UTF-16 code units. The characters of the values *)
(* that the model feeds in: markers, the escape sign, digits (0, 3, 5, a,   *)
(* E are also hexadecimal digits, E is also the exponent sign) and a letter.*)
CodeOf == [c \in {"!", "%", "0", "3", "5", "<", "=", ">", "E", "a"} |->
            CASE c = "!" -> 33 [] c = "%" -> 37 [] c = "0" -> 48
              [] c = "3" -> 51 [] c = "5" -> 53 [] c = "<" -> 60
              [] c = "=" -> 61 [] c = ">" -> 62 [] c = "E" -> 69
              [] c = "a" -> 97]

Chars(text) == [i \in 1..Len(text) |-> CodeOf[text[i]]]

Alphabet == {CodeOf[c] : c \in DOMAIN CodeOf}

\* all strings of at most n characters of the alphabet
Text(n) == UNION {[1..k -> Alphabet] : k \in 0..n}

(* JavaScript values: a number is m * 10^e with m not a multiple of 10 (0   *)
(* is m = 0, e = 0); the model's numbers have at most 5 significant digits, *)
(* for which the order and the equality of doubles are those of the exact   *)
(* decimals.                                                                *)
Num(m, e) == [t |-> "num", m |-> m, e |-> e, s |-> <<>>]
Str(s) == [t |-> "str", m |-> 0, e |-> 0, s |-> s]
UndefinedValue == [t |-> "undef", m |-> 0, e |-> 0, s |-> <<>>]
NaN == [t |-> "nan", m |-> 0, e |-> 0, s |-> <<>>]

RECURSIVE Normal(_, _)
Normal(m, e) ==
    IF m = 0 THEN Num(0, 0)
    ELSE IF m % 10 = 0 THEN Normal(m \div 10, e + 1)
    ELSE Num(m, e)

RECURSIVE DigitCount(_)
DigitCount(m) == IF m < 10 THEN 1 ELSE 1 + DigitCount(m \div 10)

Sign(a) == IF a.m > 0 THEN 1 ELSE IF a.m < 0 THEN -1 ELSE 0

\* a < b for two positive numbers of da and db digits
AlignedLess(a, b, da, db) ==
    IF da + a.e # db + b.e THEN da + a.e < db + b.e
    ELSE IF da > db THEN a.m < b.m * 10^(da - db)
    ELSE a.m * 10^(db - da) < b.m

PositiveLess(a, b) == AlignedLess(a, b, DigitCount(a.m), DigitCount(b.m))

NumberLess(a, b) ==
    IF Sign(a) # Sign(b) THEN Sign(a) < Sign(b)
    ELSE IF Sign(a) = 0 THEN FALSE
    ELSE IF Sign(a) = 1 THEN PositiveLess(a, b)
    ELSE PositiveLess(Num(0 - b.m, b.e), Num(0 - a.m, a.e))

(* ------------------------------------------------- reading a number *)
WhiteSpace == {9, 10, 11, 12, 13, 32, 160, 5760, 8232, 8233, 8239, 8287,
               12288, 65279} \cup (8192..8202)

IsDigit(c) == c \in 48..57

\* first position from i on that holds no white space (no digit)
RECURSIVE SkipWhiteSpace(_, _)
SkipWhiteSpace(s, i) ==
    IF i <= Len(s) /\ s[i] \in WhiteSpace THEN SkipWhiteSpace(s, i + 1) ELSE i

RECURSIVE SkipDigits(_, _)
SkipDigits(s, i) ==
    IF i <= Len(s) /\ IsDigit(s[i]) THEN SkipDigits(s, i + 1) ELSE i

\* the value of the digits s[i], ..., s[j - 1]
RECURSIVE DigitsValue(_, _, _)
DigitsValue(s, i, j) ==
    IF j <= i THEN 0 ELSE 10 * DigitsValue(s, i, j - 1) + (s[j - 1] - 48)

IsSign(s, i) == i <= Len(s) /\ s[i] \in {43, 45}

IsMinus(s, i) == i <= Len(s) /\ s[i] = 45

(* The longest StrDecimalLiteral that starts at position i: sign, digits,   *)
(* fraction, exponent; end is the position after it. (The literal Infinity, *)
(* and a result beyond the range of doubles, need more characters than the  *)
(* texts of the model have.) One operator per part, each handing the        *)
(* positions it found to the next.                                          *)
\* the exponent at position b, its digits in x..expEnd - 1, if there is one
ExponentValue(s, b, x, expEnd) ==
    IF b <= Len(s) /\ s[b] \in {69, 101} /\ expEnd > x
    THEN [exp |-> IF IsMinus(s, b + 1) THEN 0 - DigitsValue(s, x, expEnd)
                  ELSE DigitsValue(s, x, expEnd),
          end |-> expEnd]
    ELSE [exp |-> 0, end |-> b]

ExponentDigits(s, b, x) == ExponentValue(s, b, x, SkipDigits(s, x))

ExponentPart(s, b) ==
    ExponentDigits(s, b, IF IsSign(s, b + 1) THEN b + 2 ELSE b + 1)

\* integer digits in a..intEnd - 1, fraction digits in intEnd + 1..fracEnd - 1
Literal(s, i, a, intEnd, fracLen, fracEnd, exponent) ==
    IF intEnd = a /\ fracLen = 0 THEN [ok |-> FALSE, value |-> NaN, end |-> i]
    ELSE [ok |-> TRUE,
          value |-> Normal((IF IsMinus(s, i) THEN -1 ELSE 1)
                              * (DigitsValue(s, a, intEnd) * 10^fracLen
                                    + DigitsValue(s, intEnd + 1, fracEnd)),
                           exponent.exp - fracLen),
          end |-> exponent.end]

Fraction(s, i, a, intEnd, fracEnd) ==
    Literal(s, i, a, intEnd,
            IF fracEnd > intEnd THEN fracEnd - (intEnd + 1) ELSE 0, fracEnd,
            ExponentPart(s, fracEnd))

\* a dot belongs to the literal when a digit stands before or after it
Integer(s, i, a, intEnd) ==
    Fraction(s, i, a, intEnd,
             IF intEnd <= Len(s) /\ s[intEnd] = 46
                    /\ (intEnd > a \/ SkipDigits(s, intEnd + 1) > intEnd + 1)
             THEN SkipDigits(s, intEnd + 1) ELSE intEnd)

Unsigned(s, i, a) == Integer(s, i, a, SkipDigits(s, a))

DecimalLiteral(s, i) == Unsigned(s, i, IF IsSign(s, i) THEN i + 1 ELSE i)

\* parseFloat: the number at the start of the text, after white space
parseFloat(s) == DecimalLiteral(s, SkipWhiteSpace(s, 1)).value

\* the literal must reach the end of the text, white space aside
WholeLiteral(s, literal) ==
    IF literal.ok /\ SkipWhiteSpace(s, literal.end) > Len(s)
    THEN literal.value ELSE NaN

\* ToNumber: the whole text, trimmed, must be a number; the empty text is 0
TrimmedNumber(s, a) ==
    IF a > Len(s) THEN Num(0, 0) ELSE WholeLiteral(s, DecimalLiteral(s, a))

\* mutation: undefined is read as 0, as null is
ToNumberUndefinedZero(v) ==
    IF v.t = "num" THEN v
    ELSE IF v.t = "undef" THEN Num(0, 0)
    ELSE IF v.t # "str" THEN NaN
    ELSE TrimmedNumber(v.s, SkipWhiteSpace(v.s, 1))

ToNumber(v) ==
    IF v.t = "num" THEN v
    ELSE IF v.t # "str" THEN NaN
    ELSE TrimmedNumber(v.s, SkipWhiteSpace(v.s, 1))

(* ------------------------------------------------- decodeURIComponent *)
HexValue(c) ==
    IF c \in 48..57 THEN c - 48
    ELSE IF c \in 65..70 THEN c - 55
    ELSE IF c \in 97..102 THEN c - 87
    ELSE -1

\* the byte that the escape at position i stands for, -1 if there is none
EscapedByte(s, i) ==
    IF i + 2 <= Len(s) /\ s[i] = 37
            /\ HexValue(s[i + 1]) >= 0 /\ HexValue(s[i + 2]) >= 0
    THEN 16 * HexValue(s[i + 1]) + HexValue(s[i + 2])
    ELSE -1

\* number of bytes of the UTF-8 sequence that the byte starts, 0 if none
SequenceLength(byte) ==
    IF byte < 128 THEN 1
    ELSE IF byte \in 194..223 THEN 2
    ELSE IF byte \in 224..239 THEN 3
    ELSE IF byte \in 240..244 THEN 4
    ELSE 0

\* the code point of the n escaped bytes at position i, -1 if malformed
CodePoint(s, i, n) ==
    LET byte(k) == EscapedByte(s, i + 3 * k)
        tail(k) == byte(k) - 128
        cp == IF n = 2 THEN (byte(0) - 192) * 64 + tail(1)
              ELSE IF n = 3
              THEN (byte(0) - 224) * 4096 + tail(1) * 64 + tail(2)
              ELSE (byte(0) - 240) * 262144 + tail(1) * 4096 + tail(2) * 64
                        + tail(3)
        least == IF n = 2 THEN 128 ELSE IF n = 3 THEN 2048 ELSE 65536
    IN  IF \E k \in 1..(n - 1) : byte(k) \notin 128..191 THEN -1
        ELSE IF cp < least \/ cp > 1114111 \/ cp \in 55296..57343 THEN -1
        ELSE cp

\* the code units of a code point
CodeUnits(cp) ==
    IF cp < 65536 THEN <<cp>>
    ELSE <<55296 + ((cp - 65536) \div 1024), 56320 + ((cp - 65536) % 1024)>>

\* decodeURIComponent from position i on: the decoded text, or the URIError
\* that a malformed escape sequence throws
RECURSIVE decodeFrom(_, _)
decodeFrom(s, i) ==
    IF i > Len(s) THEN [ok |-> TRUE, text |-> <<>>]
    ELSE IF s[i] # 37
    THEN LET rest == decodeFrom(s, i + 1)
         IN  [ok |-> rest.ok, text |-> IF rest.ok THEN <<s[i]>> \o rest.text ELSE <<>>]
    ELSE LET byte == EscapedByte(s, i)
             n == IF byte < 0 THEN 0 ELSE SequenceLength(byte)
             cp == IF n = 0 THEN -1
                   ELSE IF n = 1 THEN byte
                   ELSE CodePoint(s, i, n)
             rest == decodeFrom(s, i + 3 * n)
         IN  IF cp < 0 \/ ~rest.ok THEN [ok |-> FALSE, text |-> <<>>]
             ELSE [ok |-> TRUE, text |-> CodeUnits(cp) \o rest.text]

decodeURIComponent(s) == decodeFrom(s, 1)

(* ------------------------------------------------------------ parseQuery *)
startsWith(s, prefix) ==
    /\ Len(s) >= Len(prefix)
    /\ \A i \in 1..Len(prefix) : s[i] = prefix[i]

slice(s, k) == SubSeq(s, k + 1, Len(s))

\* isNaN(parseFloat(x)) ? x : parseFloat(x)
NumberOrText(rest) ==
    IF parseFloat(rest) = NaN THEN Str(rest) ELSE parseFloat(rest)

\* mutation: the one-character markers are tested before the two-character
\* ones
ConditionShortMarkersFirst(decodedValue) ==
    IF startsWith(decodedValue, Chars(<<"!">>))
    THEN [op |-> "!=", value |-> Str(slice(decodedValue, 1))]
    ELSE IF startsWith(decodedValue, Chars(<<">">>))
    THEN [op |-> ">", value |-> NumberOrText(slice(decodedValue, 1))]
    ELSE IF startsWith(decodedValue, Chars(<<"<">>))
    THEN [op |-> "<", value |-> NumberOrText(slice(decodedValue, 1))]
    ELSE IF startsWith(decodedValue, Chars(<<">", "=">>))
    THEN [op |-> ">=", value |-> NumberOrText(slice(decodedValue, 2))]
    ELSE IF startsWith(decodedValue, Chars(<<"<", "=">>))
    THEN [op |-> "<=", value |-> NumberOrText(slice(decodedValue, 2))]
    ELSE [op |-> "=", value |-> Str(decodedValue)]

\* the if-chain of parseQuery, lines 16 to 28: operator and operand
Condition(decodedValue) ==
    IF startsWith(decodedValue, Chars(<<"!">>))
    THEN [op |-> "!=", value |-> Str(slice(decodedValue, 1))]
    ELSE IF startsWith(decodedValue, Chars(<<">", "=">>))
    THEN [op |-> ">=", value |-> NumberOrText(slice(decodedValue, 2))]
    ELSE IF startsWith(decodedValue, Chars(<<"<", "=">>))
    THEN [op |-> "<=", value |-> NumberOrText(slice(decodedValue, 2))]
    ELSE IF startsWith(decodedValue, Chars(<<">">>))
    THEN [op |-> ">", value |-> NumberOrText(slice(decodedValue, 1))]
    ELSE IF startsWith(decodedValue, Chars(<<"<">>))
    THEN [op |-> "<", value |-> NumberOrText(slice(decodedValue, 1))]
    ELSE [op |-> "=", value |-> Str(decodedValue)]

\* mutation: the value is used as it was sent, without decoding
Undecoded(value) == [ok |-> TRUE, text |-> value]

\* line 15: const decodedValue = decodeURIComponent(value)
Decoded(value) == decodeURIComponent(value)

\* parseQuery of src/unnamed/part_002 (and of the second half of
\* src/lambda/index.js): one condition per parameter, in the order of the
\* parameters; a malformed escape sequence throws
parseQuery(queryParams) ==
    IF \E i \in 1..Len(queryParams) : ~Decoded(queryParams[i].value).ok
    THEN [ok |-> FALSE, query |-> <<>>]
    ELSE [ok |-> TRUE,
          query |-> [i \in 1..Len(queryParams) |->
                LET c == Condition(Decoded(queryParams[i].value).text)
                IN  [key |-> queryParams[i].key, op |-> c.op, value |-> c.value]]]

\* the if-chain of the first parseQuery of src/lambda/index.js, lines 14 to
\* 26: the operand of a relational operator is parseFloat's result
ConditionLegacy(value) ==
    IF startsWith(value, Chars(<<"!">>))
    THEN [op |-> "!=", value |-> Str(slice(value, 1))]
    ELSE IF startsWith(value, Chars(<<">", "=">>))
    THEN [op |-> ">=", value |-> parseFloat(slice(value, 2))]
    ELSE IF startsWith(value, Chars(<<"<", "=">>))
    THEN [op |-> "<=", value |-> parseFloat(slice(value, 2))]
    ELSE IF startsWith(value, Chars(<<">">>))
    THEN [op |-> ">", value |-> parseFloat(slice(value, 1))]
    ELSE IF startsWith(value, Chars(<<"<">>))
    THEN [op |-> "<", value |-> parseFloat(slice(value, 1))]
    ELSE [op |-> "=", value |-> Str(value)]

\* the first parseQuery of src/lambda/index.js, lines 11 to 29
parseQueryLegacy(queryParams) ==
    [ok |-> TRUE,
     query |-> [i \in 1..Len(queryParams) |->
            LET c == ConditionLegacy(queryParams[i].value)
            IN  [key |-> queryParams[i].key, op |-> c.op, value |-> c.value]]]

(* ------------------------------------------------- the filter, lines 44-58 *)
\* a < b on two texts: the order of their code units
TextLess(s, t) ==
    \E k \in 1..(Len(t)) :
        /\ \A j \in 1..(k - 1) : j <= Len(s) /\ s[j] = t[j]
        /\ k > Len(s) \/ s[k] < t[k]

\* x < y on two numbers, undefined when one is NaN
NumericLess(x, y) ==
    IF x = NaN \/ y = NaN THEN "undefined"
    ELSE IF NumberLess(x, y) THEN "true" ELSE "false"

\* the abstract relational comparison a < b: "true", "false" or "undefined"
Less(a, b) ==
    IF a.t = "str" /\ b.t = "str"
    THEN (IF TextLess(a.s, b.s) THEN "true" ELSE "false")
    ELSE NumericLess(ToNumber(a), ToNumber(b))

\* a == b
LooseEquals(a, b) ==
    IF a.t = b.t THEN a.t # "nan" /\ a = b
    ELSE IF {a.t, b.t} = {"num", "str"} THEN ToNumber(a) = ToNumber(b)
    ELSE FALSE

\* the switch of lines 48 to 56
Compare(itemValue, operator, value) ==
    CASE operator = "=" -> LooseEquals(itemValue, value)
      [] operator = "!=" -> ~LooseEquals(itemValue, value)
      [] operator = ">" -> Less(value, itemValue) = "true"
      [] operator = "<" -> Less(itemValue, value) = "true"
      [] operator = ">=" -> Less(itemValue, value) = "false"
      [] operator = "<=" -> Less(value, itemValue) = "false"
      [] OTHER -> TRUE

\* mutation: some instead of every
Some(item, parsedQuery) ==
    \E i \in 1..Len(parsedQuery) :
        Compare(item[parsedQuery[i].key], parsedQuery[i].op, parsedQuery[i].value)

\* Object.entries(parsedQuery).every(...)
Every(item, parsedQuery) ==
    \A i \in 1..Len(parsedQuery) :
        Compare(item[parsedQuery[i].key], parsedQuery[i].op, parsedQuery[i].value)

\* mutation: the matching records are put in front of each other
RECURSIVE filterReversed(_, _)
filterReversed(jsonData, parsedQuery) ==
    IF jsonData = <<>> THEN <<>>
    ELSE filterReversed(Tail(jsonData), parsedQuery)
            \o (IF Every(Head(jsonData), parsedQuery)
                THEN <<Head(jsonData)>> ELSE <<>>)

\* jsonData.filter(...)
RECURSIVE filter(_, _)
filter(jsonData, parsedQuery) ==
    IF jsonData = <<>> THEN <<>>
    ELSE (IF Every(Head(jsonData), parsedQuery)
          THEN <<Head(jsonData)>> ELSE <<>>)
            \o filter(Tail(jsonData), parsedQuery)

(* ---------------------------------------------------------- inputs *)
\* the records of the datasets: the ages of the example, with and without
\* a second field, and an age stored as text
RecordSet ==
    { [age |-> Num(25, 0), status |-> UndefinedValue],
      [age |-> Num(3, 1), status |-> Str(Chars(<<"a">>))],
      [age |-> Num(35, 0), status |-> Str(Chars(<<"5">>))],
      [age |-> Str(Chars(<<"3", "0">>)), status |-> Str(Chars(<<"a">>))] }

Datasets == UNION {[1..k -> RecordSet] : k \in 0..MaxRecords}

ExampleDataset ==
    << [age |-> Num(25, 0), status |-> UndefinedValue],
       [age |-> Num(3, 1), status |-> Str(Chars(<<"a">>))],
       [age |-> Num(35, 0), status |-> Str(Chars(<<"5">>))] >>

\* every value of one parameter
SingleQueries == {<<[key |-> "age", value |-> v]>> : v \in Text(MaxValueLen)}

\* "!active" and ">=100" in code units
NotActive == <<33, 97, 99, 116, 105, 118, 101>>
AtLeast100 == <<62, 61, 49, 48, 48>>

SampleValues ==
    { Chars(<<"3", "0">>), Chars(<<">", "=", "3", "0">>), Chars(<<"<", "3", "5">>),
      Chars(<<"!", "a">>), Chars(<<"a">>), Chars(<<"%", "3", "E", "0">>),
      NotActive, AtLeast100 }

\* no parameter, one and two parameters
SampleQueries ==
    {<<>>}
    \cup {<<[key |-> k, value |-> v]>> : k \in {"age", "status"}, v \in SampleValues}
    \cup {<<[key |-> "age", value |-> v], [key |-> "status", value |-> w]>> :
            v \in SampleValues, w \in SampleValues}

(* ---------------------------------------------------------- one run *)
Unchanged == <<now, events, store, metadataCache, metaFile, dataFile, pc, call,
               overlapped, published, downloads, handlerRun>>

FilterInit ==
    /\ now = 0
    /\ events = 0
    /\ store = [i \in Ids |-> 1]
    /\ metadataCache = [i \in Ids |-> <<>>]
    /\ metaFile = [i \in Ids |-> NoFile]
    /\ dataFile = [i \in Ids |-> NoFile]
    /\ pc = [p \in Procs |-> "idle"]
    /\ call = [p \in Procs |-> IdleCall]
    /\ overlapped = [i \in Ids |-> FALSE]
    /\ published = [i \in Ids |-> {}]
    /\ downloads = NoDownloads(FALSE)
    /\ handlerRun = IdleRequest
    /\ \E variant \in {"part_002", "index.js"}, queryParams \in SingleQueries \cup SampleQueries,
          jsonData \in Datasets :
        /\ queryParams \in SampleQueries \/ jsonData = ExampleDataset
        /\ variant = "part_002" \/ queryParams \in SingleQueries
        /\ filterRun = [IdleRun EXCEPT !.stage = "start", !.variant = variant,
                                       !.queryParams = queryParams,
                                       !.jsonData = jsonData]

\* line 43 (part_002): const parsedQuery = parseQuery(queryParams)
ParseStep ==
    /\ filterRun.stage = "start"
    /\ filterRun.variant = "part_002"
    /\ LET parsed == parseQuery(filterRun.queryParams)
       IN  filterRun' = [filterRun EXCEPT
                            !.stage = IF parsed.ok THEN "parsed" ELSE "thrown",
                            !.parsedQuery = parsed.query]
    /\ UNCHANGED Unchanged

\* line 39 (index.js, first half): const parsedQuery = parseQuery(queryParams)
ParseStepLegacy ==
    /\ filterRun.stage = "start"
    /\ filterRun.variant = "index.js"
    /\ filterRun' = [filterRun EXCEPT
                        !.stage = "parsed",
                        !.parsedQuery = parseQueryLegacy(filterRun.queryParams).query]
    /\ UNCHANGED Unchanged

\* lines 44 to 58: return jsonData.filter(...)
FilterStep ==
    /\ filterRun.stage = "parsed"
    /\ filterRun' = [filterRun EXCEPT
                        !.stage = "filtered",
                        !.result = filter(filterRun.jsonData, filterRun.parsedQuery)]
    /\ UNCHANGED Unchanged

FilterNext == ParseStep \/ ParseStepLegacy \/ FilterStep

FilterSpec == FilterInit /\ [][FilterNext]_vars

(* ------------------------------------------------ claims on the filter *)
Filtered == filterRun.stage = "filtered"

\* the comparison of one condition on one record
Holds(item, condition) == Compare(item[condition.key], condition.op, condition.value)

Conditions == {filterRun.parsedQuery[i] : i \in 1..Len(filterRun.parsedQuery)}

Range(seq) == {seq[i] : i \in 1..Len(seq)}

\* C16: a record of the input is in the result of the filter exactly when
\* the comparison of every condition succeeds on it; with no condition
\* every record is returned.
C16_AndSemantics ==
    Filtered =>
        /\ Range(filterRun.result)
              = {item \in Range(filterRun.jsonData) :
                    \A condition \in Conditions : Holds(item, condition)}
        /\ filterRun.parsedQuery = <<>> => filterRun.result = filterRun.jsonData

\* two conditions, a record that satisfies both and is returned, and a
\* record that satisfies only one of them and is excluded
C16_Witness ==
    /\ Filtered
    /\ Len(filterRun.parsedQuery) = 2
    /\ \E item \in Range(filterRun.result) :
            \A condition \in Conditions : Holds(item, condition)
    /\ \E item \in Range(filterRun.jsonData) :
            /\ item \notin Range(filterRun.result)
            /\ \E condition \in Conditions : Holds(item, condition)
            /\ \E condition \in Conditions : ~Holds(item, condition)

\* the positions of the input that the result keeps, in increasing order
Selections ==
    {f \in [1..Len(filterRun.result) -> 1..Len(filterRun.jsonData)] :
        \A j, k \in 1..Len(filterRun.result) : j < k => f[j] < f[k]}

\* C17: the result of the filter is a subsequence of the input records:
\* only input records, in their original relative order, and every copy
\* of a returned record is returned (no limit, no pagination).
C17_StableFilter ==
    Filtered =>
        /\ \E f \in Selections :
              \A k \in 1..Len(filterRun.result) :
                  filterRun.result[k] = filterRun.jsonData[f[k]]
        /\ Len(filterRun.result)
              = Cardinality({i \in 1..Len(filterRun.jsonData) :
                                filterRun.jsonData[i] \in Range(filterRun.result)})

\* age >= 30 over the records of age 25, 30 and 35 returns those of age 30
\* and 35 in that order
C17_Witness ==
    /\ Filtered
    /\ filterRun.jsonData = ExampleDataset
    /\ filterRun.parsedQuery = <<[key |-> "age", op |-> ">=", value |-> Num(3, 1)]>>
    /\ filterRun.result = <<ExampleDataset[2], ExampleDataset[3]>>

Parsed == filterRun.stage \in {"parsed", "filtered"}

Current == filterRun.variant = "part_002"

\* the text in which parseQuery of part_002 looks for the marker
TextOf(i) == decodeURIComponent(filterRun.queryParams[i].value).text

UnitAt(text, k) == IF Len(text) >= k THEN text[k] ELSE 0

\* the operator that the leading marker of a text stands for
OperatorOf(text) ==
    CASE UnitAt(text, 1) = 33 -> "!="
      [] UnitAt(text, 1) = 62 /\ UnitAt(text, 2) = 61 -> ">="
      [] UnitAt(text, 1) = 60 /\ UnitAt(text, 2) = 61 -> "<="
      [] UnitAt(text, 1) = 62 /\ UnitAt(text, 2) # 61 -> ">"
      [] UnitAt(text, 1) = 60 /\ UnitAt(text, 2) # 61 -> "<"
      [] OTHER -> "="

MarkerLength(operator) ==
    CASE operator = "=" -> 0
      [] operator \in {">=", "<="} -> 2
      [] OTHER -> 1

\* the text after the marker
Remainder(text) ==
    SubSeq(text, MarkerLength(OperatorOf(text)) + 1, Len(text))

\* C18: parseQuery gives each parameter one condition, under the key of
\* the parameter, whose operator is the one of the leading marker of the
\* value, a two-character marker before its one-character prefix, and
\* whose operand is the text after the marker or the number read from it.
C18_OperatorParsing ==
    Parsed /\ Current =>
        /\ Len(filterRun.parsedQuery) = Len(filterRun.queryParams)
        /\ \A i \in 1..Len(filterRun.queryParams) :
              LET condition == filterRun.parsedQuery[i]
              IN  /\ condition.key = filterRun.queryParams[i].key
                  /\ condition.op = OperatorOf(TextOf(i))
                  /\ condition.value \in {Str(Remainder(TextOf(i))),
                                          parseFloat(Remainder(TextOf(i)))}

\* ">=100" gives the operator ">=" with the number 100 and "!active" the
\* operator "!=" with the text "active"
C18_Witness ==
    /\ Parsed /\ Current
    /\ filterRun.queryParams = << [key |-> "age", value |-> AtLeast100],
                                  [key |-> "status", value |-> NotActive] >>
    /\ filterRun.parsedQuery
          = << [key |-> "age", op |-> ">=", value |-> Num(1, 2)],
               [key |-> "status", op |-> "!=",
                value |-> Str(<<97, 99, 116, 105, 118, 101>>)] >>

\* the operand the operator and the text after the marker call for
OperandOf(operator, rest) ==
    IF operator \in {"=", "!="} THEN Str(rest)
    ELSE IF parseFloat(rest) = NaN THEN Str(rest) ELSE parseFloat(rest)

\* C19: the operand of "=" and "!=" is the decoded text after the marker,
\* also when it reads as a number; the operand of ">", "<", ">=" and "<="
\* is the number read from the text after the marker when there is one and
\* that text otherwise, never NaN. Stated for both parseQuery functions.
C19_OperandTyping ==
    Parsed =>
        \A i \in 1..Len(filterRun.queryParams) :
            decodeURIComponent(filterRun.queryParams[i].value).ok =>
                /\ filterRun.parsedQuery[i].value # NaN
                /\ filterRun.parsedQuery[i].value
                      = OperandOf(OperatorOf(TextOf(i)), Remainder(TextOf(i)))

\* C20: parseQuery decodes the escape sequences of a value before it looks
\* for the marker: operator and operand are those of the decoded text, so
\* an escaped marker is a marker.
C20_DecodeBeforeMarker ==
    Parsed /\ Current =>
        \A i \in 1..Len(filterRun.queryParams) :
            LET text == decodeURIComponent(filterRun.queryParams[i].value).text
            IN  /\ filterRun.parsedQuery[i].op = OperatorOf(text)
                /\ filterRun.parsedQuery[i].value
                      = OperandOf(OperatorOf(text), Remainder(text))

\* "%3E5" is parsed as greater than the number 5
C20_Witness ==
    /\ Parsed /\ Current
    /\ filterRun.queryParams
          = <<[key |-> "age", value |-> Chars(<<"%", "3", "E", "5">>)]>>
    /\ filterRun.parsedQuery = <<[key |-> "age", op |-> ">", value |-> Num(5, 0)]>>

HandlerVariants == {"part_002", "index.js/1", "index.js/2"}

Methods == {"OPTIONS", "GET", "POST"}

OtherRoute == [defined |-> TRUE,
               segs |-> <<"v2", "api", "use", "acme", "users", "search">>]
OtherOperation == [defined |-> TRUE,
                   segs |-> <<"v1", "api", "use", "acme", "users", "list">>]
RequestPaths == {PlainPath, BypassPath, OtherRoute, OtherOperation}

\* ">1" and "%"
AboveOne == <<62, 49>>
LonePercent == <<37>>

\* event.queryStringParameters || {}
RequestQueries ==
    { <<>>, <<[key |-> "row", value |-> AboveOne]>>,
      <<[key |-> "row", value |-> LonePercent]>> }

\* the message of the error a failed logApiCall rejects with
LogFailure == "upload failed"

HandlerUnchanged == <<now, events, store, metadataCache, metaFile, dataFile, pc,
                      call, overlapped, published, downloads, filterRun>>

\* the records of a payload as the filter reads them
Records(jsonData) ==
    [i \in 1..Len(jsonData) |->
        [ver |-> Normal(jsonData[i].ver, 0), row |-> Normal(jsonData[i].row, 0)]]

\* mutation: the API key is tested before the route
RefusalKeyFirst(method, path, apiKey) ==
    IF method = "OPTIONS" THEN Response(200, NullBody)
    ELSE IF ~apiKey THEN Response(401, ErrorBody("API key is missing"))
    ELSE IF path.segs[1] # "v1" \/ path.segs[2] # "api" \/ path.segs[3] # "use"
    THEN Response(404, ErrorBody("Invalid endpoint"))
    ELSE NoResponse

\* lines 95 to 127: the returns before the first await
Refusal(method, path, apiKey) ==
    IF method = "OPTIONS" THEN Response(200, NullBody)
    ELSE IF path.segs[1] # "v1" \/ path.segs[2] # "api" \/ path.segs[3] # "use"
    THEN Response(404, ErrorBody("Invalid endpoint"))
    ELSE IF ~apiKey THEN Response(401, ErrorBody("API key is missing"))
    ELSE NoResponse

Answered(run, response) ==
    [run EXCEPT !.stage = "responded", !.response = response]

\* the catch of the handler: status 500 with the message of the error
Failed(run, place, message) ==
    [run EXCEPT !.stage = "responded", !.thrown = place,
                !.response = Response(500, ErrorBody(message))]

\* mutation: the handler empties the module-level map on every request
ReceiveClearsMap ==
    /\ handlerRun.stage \in {"idle", "responded"}
    /\ handlerRun.log # "pending"
    /\ pc["p1"] = "idle"
    /\ \E variant \in HandlerVariants, method \in Methods, path \in RequestPaths,
          apiKey \in BOOLEAN, queryParams \in RequestQueries :
        LET run == [IdleRequest EXCEPT !.variant = variant, !.method = method,
                                       !.path = path, !.apiKey = apiKey,
                                       !.queryParams = queryParams]
        IN  handlerRun' = IF Refusal(method, path, apiKey) # NoResponse
                          THEN Answered(run, Refusal(method, path, apiKey))
                          ELSE [run EXCEPT !.stage = "lookup"]
    /\ metadataCache' = [i \in Ids |-> <<>>]
    /\ UNCHANGED <<now, events, store, metaFile, dataFile, pc, call, overlapped,
                   published, downloads, filterRun>>

\* the handler is entered with an event, lines 90 to 130
Receive ==
    /\ handlerRun.stage \in {"idle", "responded"}
    /\ handlerRun.log # "pending"
    /\ pc["p1"] = "idle"
    /\ \E variant \in HandlerVariants, method \in Methods, path \in RequestPaths,
          apiKey \in BOOLEAN, queryParams \in RequestQueries :
        LET run == [IdleRequest EXCEPT !.variant = variant, !.method = method,
                                       !.path = path, !.apiKey = apiKey,
                                       !.queryParams = queryParams]
        IN  handlerRun' = IF Refusal(method, path, apiKey) # NoResponse
                          THEN Answered(run, Refusal(method, path, apiKey))
                          ELSE [run EXCEPT !.stage = "lookup"]
    /\ UNCHANGED HandlerUnchanged

\* the answer to the row that the lookup gave
Looked(run, api) == [run EXCEPT !.api = api]

\* mutation: processQuery does not test the operation
LookupAnyOperation ==
    /\ handlerRun.stage = "lookup"
    /\ \E api \in {"active", "inactive", "none"}, apiId \in Ids :
        handlerRun' =
            IF api # "active"
            THEN Answered(Looked(handlerRun, api),
                          Response(403, ErrorBody("Invalid or inactive API")))
            ELSE IF handlerRun.method # "GET"
            THEN Answered(Looked(handlerRun, api),
                          Response(405, ErrorBody("Method not allowed for this API")))
            ELSE [Looked(handlerRun, api) EXCEPT
                    !.apiId = apiId,
                    !.stage = IF handlerRun.variant = "index.js/1"
                              THEN "download" ELSE "calling"]
    /\ UNCHANGED HandlerUnchanged

\* lines 131 to 163 and line 35: the row of the API is there (active, of
\* method GET), inactive or missing
Lookup ==
    /\ handlerRun.stage = "lookup"
    /\ \E api \in {"active", "inactive", "none"}, apiId \in Ids :
        handlerRun' =
            IF api # "active"
            THEN Answered(Looked(handlerRun, api),
                          Response(403, ErrorBody("Invalid or inactive API")))
            ELSE IF handlerRun.method # "GET"
            THEN Answered(Looked(handlerRun, api),
                          Response(405, ErrorBody("Method not allowed for this API")))
            ELSE IF handlerRun.path.segs[6] # "search"
            THEN Failed([Looked(handlerRun, api) EXCEPT !.apiId = apiId],
                        "operation", "Unknown operation")
            ELSE [Looked(handlerRun, api) EXCEPT
                    !.apiId = apiId,
                    !.stage = IF handlerRun.variant = "index.js/1"
                              THEN "download" ELSE "calling"]
    /\ UNCHANGED HandlerUnchanged

\* line 37 (part_002): getCachedApiData(supabase, apiId, pathSegments);
\* line 212 (index.js): getCachedApiData(supabase, apiId)
CacheCall ==
    /\ handlerRun.stage = "calling"
    /\ Invoke("p1")
    /\ call'["p1"].apiId = handlerRun.apiId
    /\ call'["p1"].pathSegments = IF handlerRun.variant = "part_002"
                                  THEN handlerRun.path ELSE Undefined

\* parseQuery, the filter, the response and the start of logApiCall
Processed(run, jsonData, parsed) ==
    IF ~parsed.ok THEN Failed(run, "query", "URI malformed")
    ELSE [run EXCEPT
            !.queryResult = [ok |-> TRUE,
                             value |-> filter(Records(jsonData), parsed.query)],
            !.response = Response(200,
                            RecordsBody(filter(Records(jsonData), parsed.query))),
            !.log = "pending",
            !.stage = IF run.variant = "part_002" THEN "responded" ELSE "logging"]

\* the cache call has ended: lines 42 to 58 and 165 to 180, or the catch
TakeData ==
    /\ handlerRun.stage = "calling"
    /\ Done("p1")
    /\ handlerRun' =
            IF call["p1"].result.ok
            THEN Processed(handlerRun, call["p1"].result.value,
                           parseQuery(handlerRun.queryParams))
            ELSE Failed(handlerRun, "data", call["p1"].result.message)
    /\ UNCHANGED HandlerUnchanged

\* index.js, lines 35 to 55: the download of processQuery itself
Download ==
    /\ handlerRun.stage = "download"
    /\ \E ok \in BOOLEAN :
        handlerRun' =
            IF ok
            THEN Processed([handlerRun EXCEPT !.fetched = TRUE],
                           Dataset(handlerRun.apiId, store[handlerRun.apiId]),
                           parseQueryLegacy(handlerRun.queryParams))
            ELSE Failed([handlerRun EXCEPT !.fetched = TRUE], "data",
                        "Failed to fetch API data")
    /\ UNCHANGED HandlerUnchanged

\* the upload of logApiCall ends: it succeeds, returns an error, or rejects
LogDone ==
    /\ handlerRun.log = "pending"
    /\ \E outcome \in {"ok", "error", "rejected"} :
        handlerRun' =
            IF handlerRun.stage # "logging"
            THEN [handlerRun EXCEPT !.log = outcome]
            ELSE IF outcome = "rejected"
            THEN Failed([handlerRun EXCEPT !.log = outcome], "log", LogFailure)
            ELSE [handlerRun EXCEPT !.log = outcome, !.stage = "responded"]
    /\ UNCHANGED HandlerUnchanged

\* a step of the cache call of the request
CacheStep ==
    /\ handlerRun.stage = "calling"
    /\ \/ BypassFetch("p1")
       \/ ReadMeta("p1")
       \/ GotMeta("p1")
       \/ ReadData("p1")
       \/ Mkdir("p1")
       \/ Fetch("p1")
       \/ OpenData("p1")
       \/ WriteData1("p1")
       \/ WriteData2("p1")
       \/ OpenMeta("p1")
       \/ WriteMeta("p1")
       \/ SetMap("p1")

CacheReturn ==
    /\ handlerRun.stage # "calling"
    /\ Return("p1")

HandlerNext ==
    \/ Receive
    \/ Lookup
    \/ CacheCall
    \/ CacheStep
    \/ TakeData
    \/ Download
    \/ LogDone
    \/ CacheReturn
    \/ Tick

HandlerSpec == Init /\ [][HandlerNext]_vars

(* ----------------------------------------------- claims on the handlers *)
Responded == handlerRun.stage = "responded"

\* the request was answered by one of the returns that come before
\* processQuery
Refused ==
    /\ Responded
    /\ \/ handlerRun.method = "OPTIONS"
       \/ handlerRun.response.statusCode \in {401, 403, 404, 405}

\* C21 as stated: parsing the predicates never fails: no request is answered
\* with the failure of parseQuery, whatever its query values.
C21_ParsingNeverFails == Responded => handlerRun.thrown # "query"

\* C23 as stated: the handler returns the response of a logged request
\* without waiting for the log upload: when the response is returned the
\* upload is still pending.
C23_LogNotAwaited ==
    [][ ( /\ handlerRun.stage # "responded"
          /\ handlerRun'.stage = "responded"
          /\ handlerRun'.log # "none" )
            => handlerRun'.log = "pending" ]_vars

\* C24 as stated: in every handler variant a request whose query processing
\* succeeded is answered 200 with the records found, whether the log upload
\* succeeds, returns an error or rejects.
C24_LogFailuresStayInside ==
    (Responded /\ handlerRun.queryResult.ok) =>
        handlerRun.response
            = Response(200, RecordsBody(handlerRun.queryResult.value))

\* C25 as stated: every failure response has the same body, whatever failed
\* inside: the body that a failed download of the store gives.
C25_OneFailureBody ==
    (Responded /\ handlerRun.response.statusCode = 500) =>
        handlerRun.response.body = ErrorBody(ErrorMessage)

\* C26: a request answered 404, 401, 403 or 405, and an OPTIONS request,
\* makes no cache call and no download, and no step of it changes the map,
\* the cache files, the store or the state of a cache call.
C26_RefusalsLeaveCacheAlone ==
    /\ [](Refused => /\ pc["p1"] = "idle"
                     /\ call["p1"] = IdleCall
                     /\ ~handlerRun.fetched)
    /\ [][ (handlerRun'.stage = "lookup" \/ Refused')
                => UNCHANGED <<cacheState, store, pc, call>> ]_vars

\* a request refused with 405 while the cache holds a stale entry of an
\* earlier request
C26_Witness ==
    /\ Refused
    /\ handlerRun.response.statusCode = 405
    /\ metadataCache["ds1"] # <<>>
    /\ ~IsFresh(metadataCache["ds1"], now)
    /\ ParsesAsData(dataFile["ds1"])

\* the request passed the tests of route, key, credential and method
Admitted == handlerRun.apiId # ""

RouteOk(path) ==
    path.segs[1] = "v1" /\ path.segs[2] = "api" /\ path.segs[3] = "use"

\* C35: an admitted request whose operation is not 'search' is answered 500
\* with 'Unknown operation' by the step that admits it: no cache call and
\* no download is made, no cache state changes and no log upload starts.
C35_UnknownOperationBeforeCache ==
    /\ []((Admitted /\ handlerRun.path.segs[6] # "search") =>
            /\ Responded
            /\ handlerRun.response = Response(500, ErrorBody("Unknown operation"))
            /\ handlerRun.log = "none"
            /\ ~handlerRun.fetched
            /\ pc["p1"] = "idle" /\ call["p1"] = IdleCall)
    /\ [][ (Admitted' /\ handlerRun'.path.segs[6] # "search")
                => UNCHANGED <<cacheState, store, pc, call>> ]_vars

\* an unknown operation is refused with a fresh entry in the cache
C35_Witness ==
    /\ Responded
    /\ handlerRun.thrown = "operation"
    /\ handlerRun.path = OtherOperation
    /\ IsFresh(metadataCache["ds1"], now)
    /\ ParsesAsData(dataFile["ds1"])

\* the answer that the order of the tests gives to a request, 0 for a
\* request that passes them all
Precedence(run) ==
    IF run.method = "OPTIONS" THEN 200
    ELSE IF ~RouteOk(run.path) THEN 404
    ELSE IF ~run.apiKey THEN 401
    ELSE IF run.api # "active" THEN 403
    ELSE IF run.method # "GET" THEN 405
    ELSE 0

\* C36: the handler answers with the first failing test in the order
\* OPTIONS (200), route (404), key (401), credential (403), method (405);
\* only a request that passes them all is processed; the credential lookup
\* is made for no request answered 200 to OPTIONS, 404 or 401.
C36_CheckPrecedence ==
    /\ Responded =>
        /\ Precedence(handlerRun) # 0 =>
                /\ handlerRun.response.statusCode = Precedence(handlerRun)
                /\ ~Admitted
                /\ handlerRun.thrown = "none" /\ handlerRun.log = "none"
        /\ Precedence(handlerRun) \in {200, 404, 401} => handlerRun.api = ""
        /\ Precedence(handlerRun) = 0 => Admitted
    /\ handlerRun.stage \in {"calling", "download", "logging"} =>
            Precedence(handlerRun) = 0
    /\ handlerRun.stage = "lookup" =>
            /\ handlerRun.method # "OPTIONS"
            /\ RouteOk(handlerRun.path)
            /\ handlerRun.apiKey

\* a POST with a key for an inactive API is answered 403, not 405
C36_Witness ==
    /\ Responded
    /\ handlerRun.method = "POST"
    /\ handlerRun.api = "inactive"
    /\ handlerRun.response.statusCode = 403

\* what the processQuery of lines 32 to 55 of index.js returns for the
\* request: it downloads the dataset and filters it with its own parseQuery
OriginalResult(run) ==
    filter(Records(Dataset(run.apiId, store[run.apiId])),
           parseQueryLegacy(run.queryParams).query)

\* C32 as stated: with a store that does not change and whose download does
\* not fail, every request handled one after the other by the cache-backed
\* processQuery gets the result that the processQuery which downloads on
\* every request gives, on a hit, a miss and a bypass.
C32_CacheTransparency ==
    [][ ( /\ handlerRun.stage = "calling" /\ handlerRun'.stage # "calling"
          /\ handlerRun.variant = "part_002"
          /\ call["p1"].failedAt # "fetch" )
            => handlerRun'.queryResult
                    = [ok |-> TRUE, value |-> OriginalResult(handlerRun)] ]_vars
====
